---- MODULE Spec2Model ----
(***************************************************************************)
(* IthacaPlayer: the voice state machine (SynthVoice), the voice pool and  *)
(* its allocation/stealing policy (VoiceManager), the in-memory sample     *)
(* store (SampleLibrary) and the processor lifecycle                       *)
(* (AudioPluginAudioProcessor).                                            *)
(*                                                                         *)
(* Sample values are not modelled: a layer buffer is represented by its    *)
(* identity (allocation generation, note, layer) and its length in frames. *)
(* Logging is omitted throughout.                                          *)
(***************************************************************************)
EXTENDS Integers, Sequences, FiniteSets, TLC

\* ------------------------------------------------------------------------
\* Program constants
\* ------------------------------------------------------------------------
RELEASE_DURATION_SAMPLES == 4800
MIN_NOTE == 21
MAX_NOTE == 108
NUM_DYNAMIC_LEVELS == 8
NoLevel == 255

\* ------------------------------------------------------------------------
\* Bounds of the model
\* ------------------------------------------------------------------------
NumVoices == 2
MaxSteals == 2
RankCap == 2
ShortSampleLength == 3000
LongSampleLength == 4800
BlockFrames == 2400
MaxGen == 2
MaxMidiPerBlock == 1
MaxRank == 2
MaxPending == 2
MaxStamp == 5

Voices == 1..NumVoices
Levels == 0..(NUM_DYNAMIC_LEVELS - 1)

\* notes the model sends
LibNotes == {60, 61, 62}
Notes == LibNotes
Velocities == {100}

Min(S) == CHOOSE x \in S : \A y \in S : x <= y
Max(S) == CHOOSE x \in S : \A y \in S : x >= y

\* ------------------------------------------------------------------------
\* SampleLibrary / SampleSegment
\* ------------------------------------------------------------------------
NullPtr == <<0, 0, 0>>

EmptySegment ==
    [layerAllocated     |-> [l \in Levels |-> FALSE],
     layerLengthSamples |-> [l \in Levels |-> 0],
     dynamicLayers      |-> [l \in Levels |-> NullPtr]]

isValidNote(midiNote) == midiNote >= MIN_NOTE /\ midiNote <= MAX_NOTE

isValidDynamicLevel(dynamicLevel) == dynamicLevel < NUM_DYNAMIC_LEVELS

isNoteAvailable(lib, midiNote, dynamicLevel) ==
    IF ~isValidNote(midiNote) \/ ~isValidDynamicLevel(dynamicLevel) THEN FALSE
    ELSE midiNote \in DOMAIN lib /\ lib[midiNote].layerAllocated[dynamicLevel]

getSampleData(lib, midiNote, dynamicLevel) ==
    IF ~isValidNote(midiNote) \/ ~isValidDynamicLevel(dynamicLevel) THEN NullPtr
    ELSE IF midiNote \in DOMAIN lib /\ lib[midiNote].layerAllocated[dynamicLevel]
         THEN lib[midiNote].dynamicLayers[dynamicLevel]
         ELSE NullPtr

getSampleLength(lib, midiNote, dynamicLevel) ==
    IF ~isValidNote(midiNote) \/ ~isValidDynamicLevel(dynamicLevel) THEN 0
    ELSE IF midiNote \in DOMAIN lib
         THEN lib[midiNote].layerLengthSamples[dynamicLevel]
         ELSE 0

\* a mapping without the offset of one: velocity 16 already falls in layer 1
velocityToDynamicLevel_NoOffset(velocity) ==
    IF velocity = 0 THEN 0
    ELSE Min({7, (velocity \div 16) % 256})

velocityToDynamicLevel(velocity) ==
    IF velocity = 0 THEN 0
    ELSE Min({7, ((velocity - 1) \div 16) % 256})

\* ------------------------------------------------------------------------
\* SynthVoice
\* ------------------------------------------------------------------------
reset ==
    [voiceState           |-> "Inactive",
     midiNote             |-> 0,
     velocity             |-> 0,
     currentDynamicLevel  |-> 0,
     sampleData           |-> NullPtr,
     currentSampleLength  |-> 0,
     position             |-> 0,
     queue                |-> 0,
     releaseCounter       |-> 0]

isActive(v) == v.voiceState # "Inactive"
isPlaying(v) == v.voiceState = "Playing"
isInRelease(v) == v.voiceState = "Release"
isInactive(v) == v.voiceState = "Inactive"

getReleaseCounterRemaining(v) ==
    IF v.releaseCounter < RELEASE_DURATION_SAMPLES
    THEN RELEASE_DURATION_SAMPLES - v.releaseCounter
    ELSE 0

\* getProgress as the exact fraction <<numerator, denominator>>
getProgress(v) ==
    IF v.currentSampleLength > 0 THEN <<v.position, v.currentSampleLength>>
    ELSE <<0, 1>>

ProgressGreater(p, q) == p[1] * q[2] > q[1] * p[2]

RECURSIVE spiralSearch(_, _, _, _)
spiralSearch(lib, midiNote, preferredLevel, offset) ==
    IF offset >= 8 THEN NoLevel
    ELSE IF preferredLevel >= offset
            /\ isNoteAvailable(lib, midiNote, preferredLevel - offset)
         THEN preferredLevel - offset
         ELSE LET higherLevel == (preferredLevel + offset) % 256
              IN  IF higherLevel < 8 /\ isNoteAvailable(lib, midiNote, higherLevel)
                  THEN higherLevel
                  ELSE spiralSearch(lib, midiNote, preferredLevel, offset + 1)

\* a search that tries the higher layer before the lower one at each offset
RECURSIVE spiralSearch_HigherFirst(_, _, _, _)
spiralSearch_HigherFirst(lib, midiNote, preferredLevel, offset) ==
    IF offset >= 8 THEN NoLevel
    ELSE LET higherLevel == (preferredLevel + offset) % 256
         IN  IF higherLevel < 8 /\ isNoteAvailable(lib, midiNote, higherLevel)
             THEN higherLevel
             ELSE IF preferredLevel >= offset
                     /\ isNoteAvailable(lib, midiNote, preferredLevel - offset)
                  THEN preferredLevel - offset
                  ELSE spiralSearch_HigherFirst(lib, midiNote, preferredLevel,
                                                offset + 1)

findBestAvailableLevel_HigherFirst(lib, midiNote, preferredLevel) ==
    IF isNoteAvailable(lib, midiNote, preferredLevel) THEN preferredLevel
    ELSE spiralSearch_HigherFirst(lib, midiNote, preferredLevel, 1)

findBestAvailableLevel(lib, midiNote, preferredLevel) ==
    IF isNoteAvailable(lib, midiNote, preferredLevel) THEN preferredLevel
    ELSE spiralSearch(lib, midiNote, preferredLevel, 1)

start(v, midiNote, velocity, lib) ==
    LET r0 == [reset EXCEPT !.midiNote = midiNote, !.velocity = velocity]
        preferredLevel == velocityToDynamicLevel(velocity)
        bestLevel == findBestAvailableLevel(lib, midiNote, preferredLevel)
    IN  IF bestLevel = NoLevel THEN r0
        ELSE LET data == getSampleData(lib, midiNote, bestLevel)
                 len == getSampleLength(lib, midiNote, bestLevel)
                 r1 == [r0 EXCEPT !.currentDynamicLevel = bestLevel,
                                  !.sampleData = data,
                                  !.currentSampleLength = len]
             IN  IF data = NullPtr \/ len = 0 THEN r1
                 ELSE [r1 EXCEPT !.voiceState = "Playing",
                                 !.position = 0,
                                 !.releaseCounter = 0]

\* variant: a release already running is started again from counter 0
startRelease_Restarts(v) ==
    IF isActive(v)
    THEN [v EXCEPT !.voiceState = "Release", !.releaseCounter = 0]
    ELSE v

startRelease(v) ==
    IF v.voiceState = "Playing"
    THEN [v EXCEPT !.voiceState = "Release", !.releaseCounter = 0]
    ELSE v

\* The per-frame loop of render in closed form.  A Playing voice mixes
\* frames until the cursor reaches the layer length; a Release voice
\* increments the release counter at the top of every iteration (also of
\* the iteration that stops it) and stops in the first iteration in which
\* the cursor has reached the length or the counter has reached
\* RELEASE_DURATION_SAMPLES.
\* a render whose Release phase holds the voice: neither the cursor nor the
\* release counter moves, so the release never expires
render_ReleaseHolds(v, numSamples) ==
    IF v.voiceState = "Playing" /\ numSamples > 0 /\ v.sampleData # NullPtr
       /\ v.currentSampleLength # 0
    THEN IF numSamples > v.currentSampleLength - v.position
         THEN [v EXCEPT !.voiceState = "Inactive",
                        !.position = Max({v.position, v.currentSampleLength})]
         ELSE [v EXCEPT !.position = v.position + numSamples]
    ELSE v

\* a render without the end-of-sample test: the cursor runs on past the layer
render_NoEndCheck(v, numSamples) ==
    IF ~isActive(v) \/ v.sampleData = NullPtr \/ v.currentSampleLength = 0
       \/ numSamples <= 0
    THEN v
    ELSE IF v.voiceState = "Release"
            /\ v.releaseCounter + numSamples >= RELEASE_DURATION_SAMPLES
         THEN [v EXCEPT !.voiceState = "Inactive",
                        !.position = v.position + Max({0,
                            RELEASE_DURATION_SAMPLES - v.releaseCounter - 1}),
                        !.releaseCounter = Max({v.releaseCounter + 1,
                                                RELEASE_DURATION_SAMPLES})]
         ELSE [v EXCEPT !.position = v.position + numSamples,
                        !.releaseCounter = IF v.voiceState = "Release"
                                           THEN v.releaseCounter + numSamples
                                           ELSE v.releaseCounter]

render(v, numSamples) ==
    IF ~isActive(v) \/ v.sampleData = NullPtr \/ v.currentSampleLength = 0
       \/ numSamples <= 0
    THEN v
    ELSE LET left == IF v.position >= v.currentSampleLength THEN 0
                     ELSE v.currentSampleLength - v.position
             jEnd == left + 1
             jExp == IF v.releaseCounter + 1 >= RELEASE_DURATION_SAMPLES THEN 1
                     ELSE RELEASE_DURATION_SAMPLES - v.releaseCounter
         IN  IF v.voiceState = "Playing"
             THEN IF numSamples >= jEnd
                  THEN [v EXCEPT !.voiceState = "Inactive",
                                 !.position = v.position + left]
                  ELSE [v EXCEPT !.position = v.position + numSamples]
             ELSE LET jStop == Min({jEnd, jExp})
                  IN  IF numSamples >= jStop
                      THEN [v EXCEPT !.voiceState = "Inactive",
                                     !.position = v.position + (jStop - 1),
                                     !.releaseCounter = v.releaseCounter + jStop]
                      ELSE [v EXCEPT !.position = v.position + numSamples,
                                     !.releaseCounter = v.releaseCounter + numSamples]

\* frames render mixes into the output for this voice
framesMixed(v, numSamples) == render(v, numSamples).position - v.position

\* frames mixed for the voice by render called again and again with
\* numSamples frames, until the voice is Inactive
RECURSIVE framesUntilInactive(_, _)
framesUntilInactive(v, numSamples) ==
    IF ~isActive(v) THEN 0
    ELSE framesMixed(v, numSamples)
         + framesUntilInactive(render(v, numSamples), numSamples)

\* ------------------------------------------------------------------------
\* VoiceManager
\* ------------------------------------------------------------------------
\* 0 stands for nullptr in the results of the find* helpers.
findVoicePlayingNote_PlayingOnly(vs, midiNote) ==
    LET S == {i \in DOMAIN vs : isPlaying(vs[i]) /\ vs[i].midiNote = midiNote}
    IN  IF S = {} THEN 0 ELSE Min(S)

findVoicePlayingNote(vs, midiNote) ==
    LET S == {i \in DOMAIN vs : isActive(vs[i]) /\ vs[i].midiNote = midiNote}
    IN  IF S = {} THEN 0 ELSE Min(S)

RECURSIVE scanFree(_, _, _, _)
scanFree(vs, i, bestCandidate, lowestQueue) ==
    IF i > Len(vs) THEN bestCandidate
    ELSE IF isInactive(vs[i]) /\ vs[i].queue <= lowestQueue
         THEN scanFree(vs, i + 1, i, vs[i].queue)
         ELSE scanFree(vs, i + 1, bestCandidate, lowestQueue)

findBestFreeVoice(vs) == scanFree(vs, 1, 0, 255)

RECURSIVE scanRelease(_, _, _, _, _)
scanRelease(vs, i, bestCandidate, lowestQueue, highestCounter) ==
    IF i > Len(vs) THEN bestCandidate
    ELSE LET currentQueue == vs[i].queue
             releaseElapsed == RELEASE_DURATION_SAMPLES
                                   - getReleaseCounterRemaining(vs[i])
         IN  IF isInRelease(vs[i])
                /\ (currentQueue < lowestQueue
                    \/ (currentQueue = lowestQueue /\ releaseElapsed > highestCounter))
             THEN scanRelease(vs, i + 1, i, currentQueue, releaseElapsed)
             ELSE scanRelease(vs, i + 1, bestCandidate, lowestQueue, highestCounter)

\* variant: the first Release voice of the pool, whatever its rank
findBestReleaseCandidate_First(vs) ==
    LET S == {i \in DOMAIN vs : isInRelease(vs[i])}
    IN  IF S = {} THEN 0 ELSE Min(S)

findBestReleaseCandidate(vs) == scanRelease(vs, 1, 0, 255, 0)

RECURSIVE scanPlaying(_, _, _, _, _)
scanPlaying(vs, i, bestCandidate, lowestQueue, highestProgress) ==
    IF i > Len(vs) THEN bestCandidate
    ELSE LET currentQueue == vs[i].queue
             currentProgress == getProgress(vs[i])
         IN  IF isPlaying(vs[i])
                /\ (currentQueue < lowestQueue
                    \/ (currentQueue = lowestQueue
                        /\ ProgressGreater(currentProgress, highestProgress)))
             THEN scanPlaying(vs, i + 1, i, currentQueue, currentProgress)
             ELSE scanPlaying(vs, i + 1, bestCandidate, lowestQueue, highestProgress)

\* variant: the Playing voice of highest rank
findBestPlayingCandidate_Newest(vs) ==
    LET S == {i \in DOMAIN vs : isPlaying(vs[i])}
    IN  IF S = {} THEN 0
        ELSE CHOOSE i \in S : \A j \in S : vs[i].queue >= vs[j].queue

findBestPlayingCandidate(vs) == scanPlaying(vs, 1, 0, 255, <<0, 1>>)

assignTopPriority(vs, voice) ==
    IF voice = 0 THEN vs
    ELSE LET maxQueue == Max({0} \cup {vs[j].queue : j \in DOMAIN vs \ {voice}})
             newQueue == IF maxQueue < 254 THEN maxQueue + 1 ELSE 254
         IN  [vs EXCEPT ![voice].queue = newQueue]

\* variant: playing stealing tried before release stealing
startVoice_StealPlayingFirst(p, lib, midiNote, velocity) ==
    LET vs == p.voices
        existingVoice == findVoicePlayingNote(vs, midiNote)
        freeVoice == findBestFreeVoice(vs)
        releaseVoice == findBestReleaseCandidate(vs)
        playingVoice == findBestPlayingCandidate(vs)
        started(i) == [vs EXCEPT ![i] = start(vs[i], midiNote, velocity, lib)]
    IN  IF existingVoice # 0
        THEN [p EXCEPT !.voices = started(existingVoice),
                       !.step = "restart", !.voice = existingVoice]
        ELSE IF freeVoice # 0
        THEN [p EXCEPT !.voices = assignTopPriority(started(freeVoice), freeVoice),
                       !.step = "free", !.voice = freeVoice]
        ELSE IF playingVoice # 0
        THEN [p EXCEPT !.voices = assignTopPriority(started(playingVoice), playingVoice),
                       !.voicesStolenSinceLastRefresh = @ + 1,
                       !.playingVoicesStolen = @ + 1,
                       !.step = "stealPlaying", !.voice = playingVoice]
        ELSE IF releaseVoice # 0
        THEN [p EXCEPT !.voices = assignTopPriority(started(releaseVoice), releaseVoice),
                       !.voicesStolenSinceLastRefresh = @ + 1,
                       !.releaseVoicesStolen = @ + 1,
                       !.step = "stealRelease", !.voice = releaseVoice]
        ELSE [p EXCEPT !.step = "failure", !.voice = 0]

\* startVoice on the pool p = [voices, voicesStolenSinceLastRefresh,
\* releaseVoicesStolen, playingVoicesStolen]; step names the branch taken
\* and voice the pool index it used (0 when none).
startVoice(p, lib, midiNote, velocity) ==
    LET vs == p.voices
        existingVoice == findVoicePlayingNote(vs, midiNote)
        freeVoice == findBestFreeVoice(vs)
        releaseVoice == findBestReleaseCandidate(vs)
        playingVoice == findBestPlayingCandidate(vs)
        started(i) == [vs EXCEPT ![i] = start(vs[i], midiNote, velocity, lib)]
    IN  IF existingVoice # 0
        THEN [p EXCEPT !.voices = started(existingVoice),
                       !.step = "restart", !.voice = existingVoice]
        ELSE IF freeVoice # 0
        THEN [p EXCEPT !.voices = assignTopPriority(started(freeVoice), freeVoice),
                       !.step = "free", !.voice = freeVoice]
        ELSE IF releaseVoice # 0
        THEN [p EXCEPT !.voices = assignTopPriority(started(releaseVoice), releaseVoice),
                       !.voicesStolenSinceLastRefresh = @ + 1,
                       !.releaseVoicesStolen = @ + 1,
                       !.step = "stealRelease", !.voice = releaseVoice]
        ELSE IF playingVoice # 0
        THEN [p EXCEPT !.voices = assignTopPriority(started(playingVoice), playingVoice),
                       !.voicesStolenSinceLastRefresh = @ + 1,
                       !.playingVoicesStolen = @ + 1,
                       !.step = "stealPlaying", !.voice = playingVoice]
        ELSE [p EXCEPT !.step = "failure", !.voice = 0]

\* variant: the first Playing voice is released, whatever note it plays
stopVoice_IgnoresNote(p, midiNote) ==
    LET vs == p.voices
        S == {i \in DOMAIN vs : isPlaying(vs[i])}
    IN  IF S = {} THEN [p EXCEPT !.step = "noteOffMiss", !.voice = 0]
        ELSE [p EXCEPT !.voices = [vs EXCEPT ![Min(S)] = startRelease(vs[Min(S)])],
                       !.step = "noteOff", !.voice = Min(S)]

\* variant: the voice is matched by note alone and put into Release
\* whatever state it is in
stopVoice_NoStateCheck(p, midiNote) ==
    LET vs == p.voices
        S == {i \in DOMAIN vs : vs[i].midiNote = midiNote}
    IN  IF S = {} THEN [p EXCEPT !.step = "noteOffMiss", !.voice = 0]
        ELSE [p EXCEPT !.voices = [vs EXCEPT ![Min(S)].voiceState = "Release",
                                             ![Min(S)].releaseCounter = 0],
                       !.step = "noteOff", !.voice = Min(S)]

stopVoice(p, midiNote) ==
    LET vs == p.voices
        S == {i \in DOMAIN vs : isPlaying(vs[i]) /\ vs[i].midiNote = midiNote}
    IN  IF S = {} THEN [p EXCEPT !.step = "noteOffMiss", !.voice = 0]
        ELSE [p EXCEPT !.voices = [vs EXCEPT ![Min(S)] = startRelease(vs[Min(S)])],
                       !.step = "noteOff", !.voice = Min(S)]

generateAudio(p, numSamples) ==
    IF numSamples <= 0 THEN p
    ELSE [p EXCEPT !.voices = [i \in DOMAIN p.voices |->
                                  IF isActive(p.voices[i])
                                  THEN render(p.voices[i], numSamples)
                                  ELSE p.voices[i]]]

refresh(p) ==
    LET vs == p.voices
        count(st) == Cardinality({i \in DOMAIN vs : vs[i].voiceState = st})
        zeroed == [p EXCEPT !.voicesStolenSinceLastRefresh = 0,
                            !.releaseVoicesStolen = 0,
                            !.playingVoicesStolen = 0]
    IN  [zeroed EXCEPT !.lastStats =
            [totalVoices             |-> Len(vs),
             activeVoices            |-> count("Playing") + count("Release"),
             playingVoices           |-> count("Playing"),
             releaseVoices           |-> count("Release"),
             inactiveVoices          |-> count("Inactive"),
             voicesStolenThisRefresh |-> zeroed.voicesStolenSinceLastRefresh,
             releaseVoicesStolen     |-> zeroed.releaseVoicesStolen,
             playingVoicesStolen     |-> zeroed.playingVoicesStolen]]

\* ------------------------------------------------------------------------
\* SampleLibrary::clear / initialize
\* ------------------------------------------------------------------------
\* What loading finds in the instrument directory: whether the directory
\* can be used, which layers of which note load (a file that exists but is
\* invalid makes loadSingleSample throw and the layer is skipped), and the
\* length in frames of the files.
FullLayers == [n \in LibNotes |-> Levels]
DiskFull == [dirOk |-> TRUE, layers |-> FullLayers, len |-> LongSampleLength]
DiskPartial ==
    [dirOk |-> TRUE,
     layers |-> [FullLayers EXCEPT ![60] = {2, 5}, ![61] = {}],
     len |-> ShortSampleLength]
DiskUnusable == [dirOk |-> FALSE, layers |-> FullLayers, len |-> LongSampleLength]
DiskStates == {DiskFull, DiskPartial}

clear(lib) == [n \in DOMAIN lib |-> EmptySegment]

storeLayer(segment, dynamicLevel, data, length) ==
    IF dynamicLevel < 8
    THEN [segment EXCEPT !.dynamicLayers[dynamicLevel] = data,
                         !.layerLengthSamples[dynamicLevel] = length,
                         !.layerAllocated[dynamicLevel] = TRUE]
    ELSE segment

\* The segments after initialize, for the buffers allocated as generation
\* gen; threw tells whether initialize left by an exception.
initialize(lib, rate, disk, gen) ==
    IF rate <= 0 THEN [segments |-> lib, rate |-> 0, threw |-> TRUE, cleared |-> FALSE]
    ELSE LET loaded == IF disk.dirOk
                       THEN {<<n, l>> \in LibNotes \X Levels : l \in disk.layers[n]}
                       ELSE {}
             stored == [n \in DOMAIN lib |->
                          [layerAllocated     |-> [l \in Levels |-> <<n, l>> \in loaded],
                           layerLengthSamples |-> [l \in Levels |->
                                IF <<n, l>> \in loaded THEN disk.len ELSE 0],
                           dynamicLayers      |-> [l \in Levels |->
                                IF <<n, l>> \in loaded THEN <<gen, n, l>> ELSE NullPtr]]]
         IN  IF loaded = {}
             THEN [segments |-> clear(lib), rate |-> rate, threw |-> TRUE, cleared |-> TRUE]
             ELSE [segments |-> stored, rate |-> rate, threw |-> FALSE, cleared |-> TRUE]

\* buffers the sample store owns
LiveBuffers(lib) ==
    {lib[n].dynamicLayers[l] : n \in DOMAIN lib, l \in Levels} \ {NullPtr}

\* ------------------------------------------------------------------------
\* SampleLoader.  A file of the instrument directory is the record
\* [exists, valid, rate, length]: rate is the sample rate its header
\* records, length its frames; valid is FALSE for a file analyzeWavFile
\* rejects or no reader opens.  dir is the pair of files of one note and
\* layer, [f44, f48], named by generateFilename.  A LoadedSample is the
\* record of its fields, audioData being "buffer" or "null".
\* ------------------------------------------------------------------------
SAMPLE_SECONDS == 12

NoFile == [exists |-> FALSE, valid |-> FALSE, rate |-> 0, length |-> 0]

InvalidFile == [exists |-> TRUE, valid |-> FALSE, rate |-> 0, length |-> 0]

\* LoadedSample(): also what the move constructor leaves in its source
NullSample ==
    [midiNote |-> 0, dynamicLevel |-> 0, lengthSamples |-> 0,
     audioData |-> "null", isGenerated |-> FALSE, originalSampleRate |-> 0]

\* the pairs of note and layer the model keeps files for
LoaderPairs == {<<60, 0>>, <<61, 3>>}

\* the instrument directory before anything was written to it
NoFiles == [p \in LoaderPairs |-> [f44 |-> NoFile, f48 |-> NoFile]]

\* the suffix generateFilename gives the file of sample rate sr
generateFilename(sr) == IF sr - 44100 < 1 /\ 44100 - sr < 1 THEN "f44" ELSE "f48"

\* outputLength of resampleIfNeeded for a loader of sample rate loaderRate:
\* sourceLength * (loaderRate / sourceSampleRate) cut to an integer.  The
\* rates are multiples of 300, and the quotient is taken of the rates
\* divided by 300 to keep the product within 32 bits.
resampleIfNeeded(sourceLength, sourceSampleRate, loaderRate) ==
    (sourceLength * (loaderRate \div 300)) \div (sourceSampleRate \div 300)

loadWavFile(file, loaderRate, midiNote, dynamicLevel) ==
    IF ~file.valid THEN [threw |-> TRUE, sample |-> NullSample]
    ELSE LET needsResampling ==
                 file.rate - loaderRate > 1 \/ loaderRate - file.rate > 1
         IN  [threw |-> FALSE,
              sample |->
                 [midiNote |-> midiNote, dynamicLevel |-> dynamicLevel,
                  lengthSamples |->
                      IF needsResampling
                      THEN resampleIfNeeded(file.length, file.rate, loaderRate)
                      ELSE file.length,
                  audioData |-> "buffer", isGenerated |-> FALSE,
                  originalSampleRate |-> file.rate]]

generateSineWave(midiNote, dynamicLevel) ==
    [midiNote |-> midiNote, dynamicLevel |-> dynamicLevel,
     lengthSamples |-> 44100 * SAMPLE_SECONDS,
     audioData |-> "buffer", isGenerated |-> TRUE,
     originalSampleRate |-> 44100]

\* the file after saveGeneratedSample(sample, targetFile); written is
\* whether the stream and the writer could be created and the write went
\* through, which is also what the call returns
saveGeneratedSample(sample, targetFile, written) ==
    IF written
    THEN [exists |-> TRUE, valid |-> TRUE,
          rate |-> sample.originalSampleRate, length |-> sample.lengthSamples]
    ELSE targetFile

\* loadSingleSample, were a save that fails to raise an error
loadSingleSample_SaveFatal(dir, loaderRate, midiNote, dynamicLevel, writes) ==
    LET baseSR == 44100
        isBase == loaderRate - baseSR < 1 /\ baseSR - loaderRate < 1
        otherSR == IF isBase THEN 48000 ELSE 44100
        targetFile == generateFilename(loaderRate)
        otherFile == generateFilename(otherSR)
    IN  IF dir[targetFile].exists
        THEN LET r == loadWavFile(dir[targetFile], loaderRate, midiNote, dynamicLevel)
             IN  [threw |-> r.threw, sample |-> r.sample, dir |-> dir,
                  step |-> "target"]
        ELSE IF dir[otherFile].exists
        THEN LET r == loadWavFile(dir[otherFile], loaderRate, midiNote, dynamicLevel)
             IN  IF r.threw
                 THEN [threw |-> TRUE, sample |-> r.sample, dir |-> dir,
                       step |-> "other"]
                 ELSE [threw |-> ~writes[1],
                       sample |-> IF writes[1] THEN r.sample ELSE NullSample,
                       dir |-> [dir EXCEPT ![targetFile] =
                                  saveGeneratedSample(r.sample, @, writes[1])],
                       step |-> "other"]
        ELSE LET baseSample == generateSineWave(midiNote, dynamicLevel)
                 baseFile == generateFilename(baseSR)
                 dir1 == [dir EXCEPT ![baseFile] =
                            saveGeneratedSample(baseSample, @, writes[1])]
                 resampledLength ==
                     resampleIfNeeded(baseSample.lengthSamples, baseSR, loaderRate)
                 \* resampledSample is move-constructed from baseSample
                 movedFrom == NullSample
                 resampledSample ==
                     [baseSample EXCEPT !.lengthSamples = resampledLength,
                                        !.originalSampleRate = 48000]
                 resampledFile == generateFilename(48000)
                 dir2 == [dir1 EXCEPT ![resampledFile] =
                            saveGeneratedSample(resampledSample, @, writes[2])]
             IN  [threw |-> ~(writes[1] /\ writes[2]),
                  sample |-> IF ~(writes[1] /\ writes[2]) \/ isBase THEN movedFrom
                             ELSE resampledSample,
                  dir |-> dir2, step |-> "generate"]

\* writes[i] tells whether the i-th saveGeneratedSample of the call writes
loadSingleSample(dir, loaderRate, midiNote, dynamicLevel, writes) ==
    LET baseSR == 44100
        isBase == loaderRate - baseSR < 1 /\ baseSR - loaderRate < 1
        otherSR == IF isBase THEN 48000 ELSE 44100
        targetFile == generateFilename(loaderRate)
        otherFile == generateFilename(otherSR)
    IN  IF dir[targetFile].exists
        THEN LET r == loadWavFile(dir[targetFile], loaderRate, midiNote, dynamicLevel)
             IN  [threw |-> r.threw, sample |-> r.sample, dir |-> dir,
                  step |-> "target"]
        ELSE IF dir[otherFile].exists
        THEN LET r == loadWavFile(dir[otherFile], loaderRate, midiNote, dynamicLevel)
             IN  IF r.threw
                 THEN [threw |-> TRUE, sample |-> r.sample, dir |-> dir,
                       step |-> "other"]
                 ELSE [threw |-> FALSE, sample |-> r.sample,
                       dir |-> [dir EXCEPT ![targetFile] =
                                  saveGeneratedSample(r.sample, @, writes[1])],
                       step |-> "other"]
        ELSE LET baseSample == generateSineWave(midiNote, dynamicLevel)
                 baseFile == generateFilename(baseSR)
                 dir1 == [dir EXCEPT ![baseFile] =
                            saveGeneratedSample(baseSample, @, writes[1])]
                 resampledLength ==
                     resampleIfNeeded(baseSample.lengthSamples, baseSR, loaderRate)
                 \* resampledSample is move-constructed from baseSample
                 movedFrom == NullSample
                 resampledSample ==
                     [baseSample EXCEPT !.lengthSamples = resampledLength,
                                        !.originalSampleRate = 48000]
                 resampledFile == generateFilename(48000)
                 dir2 == [dir1 EXCEPT ![resampledFile] =
                            saveGeneratedSample(resampledSample, @, writes[2])]
             IN  [threw |-> FALSE,
                  sample |-> IF isBase THEN movedFrom
                             ELSE resampledSample,
                  dir |-> dir2, step |-> "generate"]

\* The samples loadInstrument returns and the directory it leaves: a pair
\* whose loadSingleSample throws is skipped.  pairs are the pairs of note
\* and layer the loops visit, files maps each to its dir, writes to the
\* outcomes of its saves.
loadInstrument(files, loaderRate, writes) ==
    LET r == [p \in DOMAIN files |->
                loadSingleSample(files[p], loaderRate, p[1], p[2], writes[p])]
    IN  [samples |-> [p \in {q \in DOMAIN files : ~r[q].threw} |-> r[p].sample],
         files |-> [p \in DOMAIN files |-> r[p].dir]]

\* SampleLibrary::initialize over the files of the instrument directory
initializeFromFiles(lib, rate, files, writes, gen) ==
    IF rate <= 0
    THEN [segments |-> lib, rate |-> 0, threw |-> TRUE, files |-> files]
    ELSE LET loaded == loadInstrument(files, rate, writes)
             \* storeSampleRam accepts the sample
             storable(sample) ==
                 /\ isValidNote(sample.midiNote)
                 /\ isValidDynamicLevel(sample.dynamicLevel)
                 /\ sample.audioData # "null"
                 /\ sample.lengthSamples # 0
             stored == {p \in DOMAIN loaded.samples : storable(loaded.samples[p])}
             segments ==
                 [n \in DOMAIN lib |->
                    [layerAllocated |-> [l \in Levels |-> <<n, l>> \in stored],
                     layerLengthSamples |-> [l \in Levels |->
                         IF <<n, l>> \in stored
                         THEN loaded.samples[<<n, l>>].lengthSamples ELSE 0],
                     dynamicLayers |-> [l \in Levels |->
                         IF <<n, l>> \in stored THEN <<gen, n, l>> ELSE NullPtr]]]
         IN  [segments |-> segments, rate |-> rate, threw |-> stored = {},
              files |-> loaded.files]

\* ------------------------------------------------------------------------
\* MidiStateManager, MIDI channel 0.  The slot array activeNotes_ is kept as
\* a map from key to the slot's isActive and velocity; a key without a slot
\* reads as inactive, as getVelocity reads it.  m is the record
\* [activeNotes, noteOnQueue, noteOffQueue].
\* ------------------------------------------------------------------------
QueueCapacity == 255

isValidKey(key) == key < 128

pushToQueue(queue, note) ==
    IF Len(queue) < QueueCapacity THEN Append(queue, note) ELSE queue

putNoteOn(m, key, velocity) ==
    IF ~isValidKey(key) THEN m
    ELSE [m EXCEPT !.activeNotes[key] = [isActive |-> TRUE, velocity |-> velocity],
                   !.noteOnQueue = pushToQueue(@, key)]

putNoteOff(m, key) ==
    IF ~isValidKey(key) THEN m
    ELSE [m EXCEPT !.activeNotes[key].isActive = FALSE,
                   !.noteOffQueue = pushToQueue(@, key)]

getVelocity(m, key) ==
    IF ~isValidKey(key) THEN 0
    ELSE IF m.activeNotes[key].isActive THEN m.activeNotes[key].velocity
    ELSE 0

\* the loop over the host's MIDI buffer at the head of processBlock, which
\* calls pushNoteOn / pushNoteOff; MidiStateManager defines no such methods,
\* putNoteOn / putNoteOff are the ones with these parameters
RECURSIVE putMidiMessages(_, _)
putMidiMessages(m, midiMessages) ==
    IF midiMessages = <<>> THEN m
    ELSE LET msg == Head(midiMessages)
             m1 == IF msg.type = "on" THEN putNoteOn(m, msg.note, msg.velocity)
                   ELSE putNoteOff(m, msg.note)
         IN  putMidiMessages(m1, Tail(midiMessages))

\* VoiceManager::processMidiEvents: every queued note-on first (started with
\* the velocity the key has now, or stopped when that velocity is 0), then
\* every queued note-off.
RECURSIVE popNoteOns(_, _, _, _)
popNoteOns(p, lib, m, queue) ==
    IF queue = <<>> THEN p
    ELSE LET note == Head(queue)
             velocity == getVelocity(m, note)
             p1 == IF velocity = 0 THEN stopVoice(p, note)
                   ELSE startVoice(p, lib, note, velocity)
         IN  popNoteOns(p1, lib, m, Tail(queue))

RECURSIVE popNoteOffs(_, _)
popNoteOffs(p, queue) ==
    IF queue = <<>> THEN p
    ELSE popNoteOffs(stopVoice(p, Head(queue)), Tail(queue))

processMidiEvents(p, lib, m) ==
    popNoteOffs(popNoteOns(p, lib, m, m.noteOnQueue), m.noteOffQueue)

\* a loop of processMidiEvents that pops once instead of until empty
drainQueue_PopsOnce(queue) == IF queue = <<>> THEN queue ELSE Tail(queue)

\* A queue after its loop in processMidiEvents: popFromQueue takes the
\* oldest note, or answers 255 for an empty queue, and the loop ends at the
\* first 255 it is handed.
RECURSIVE drainQueue(_)
drainQueue(queue) ==
    IF queue = <<>> THEN queue
    ELSE IF Head(queue) = 255 THEN Tail(queue)
    ELSE drainQueue(Tail(queue))

\* ------------------------------------------------------------------------
\* AudioPluginAudioProcessor
\* ------------------------------------------------------------------------
hasValidSamples(lib) ==
    \E n \in DOMAIN lib, l \in Levels : isNoteAvailable(lib, n, l)

\* a voice whose layer buffer the sample store no longer owns
IsStale(v, lib) == isActive(v) /\ v.sampleData \notin LiveBuffers(lib)

\* render would read a buffer that has been freed
ReadsFreed(vs, lib, numSamples) ==
    \E i \in DOMAIN vs : IsStale(vs[i], lib) /\ framesMixed(vs[i], numSamples) > 0

\* a prepareToPlay that stores the new parameters before validating them
prepareToPlay_StoresFirst(a, sampleRate, samplesPerBlock, disk, gen) ==
    IF sampleRate <= 0 \/ sampleRate > 192000
       \/ samplesPerBlock <= 0 \/ samplesPerBlock > 8192
    THEN [a EXCEPT !.synthState = "Error", !.processingEnabled = FALSE,
                   !.reloads = FALSE,
                   !.sampleRate = sampleRate,
                   !.samplesPerBlock = samplesPerBlock]
    ELSE LET oldSampleRate == a.sampleRate
             oldBufferSize == a.samplesPerBlock
             oldState == a.synthState
             diff == sampleRate - oldSampleRate
             sampleRateChanged == (IF diff < 0 THEN -diff ELSE diff) > 1
             bufferSizeChanged == samplesPerBlock # oldBufferSize
             hasError == oldState = "Error"
             isInitAfterRelease == oldState = "Uninitialized" /\ oldSampleRate > 0
             isTrueFirstInit == oldState = "Uninitialized" /\ oldSampleRate = 0
             needsFullReinit == isTrueFirstInit \/ hasError \/ sampleRateChanged
             a1 == [a EXCEPT !.sampleRate = sampleRate,
                             !.samplesPerBlock = samplesPerBlock,
                             !.reloads = FALSE]
             r == initialize(a.segments, sampleRate, disk, gen)
             \* initializeSynth, and the loading branch of initializeSynthFast
             loaded == [a1 EXCEPT !.segments = r.segments,
                                  !.librarySampleRate = r.rate,
                                  !.reloads = TRUE,
                                  !.processingEnabled = FALSE,
                                  !.synthState =
                                      IF r.threw \/ ~hasValidSamples(r.segments)
                                      THEN "Error" ELSE "Ready"]
             a2 == IF needsFullReinit THEN loaded
                   ELSE IF isInitAfterRelease /\ ~sampleRateChanged
                   THEN IF hasValidSamples(a.segments)
                        THEN [a1 EXCEPT !.synthState = "Ready",
                                        !.processingEnabled = FALSE]
                        ELSE loaded
                   ELSE a1
         IN  IF a2.synthState = "Ready"
             THEN [a2 EXCEPT !.processingEnabled = TRUE]
             ELSE a2

\* a prepareToPlay that enables processing whatever state initialization left
prepareToPlay_EnablesAlways(a, sampleRate, samplesPerBlock, disk, gen) ==
    IF sampleRate <= 0 \/ sampleRate > 192000
       \/ samplesPerBlock <= 0 \/ samplesPerBlock > 8192
    THEN [a EXCEPT !.synthState = "Error", !.processingEnabled = FALSE,
                   !.reloads = FALSE]
    ELSE LET oldSampleRate == a.sampleRate
             oldBufferSize == a.samplesPerBlock
             oldState == a.synthState
             diff == sampleRate - oldSampleRate
             sampleRateChanged == (IF diff < 0 THEN -diff ELSE diff) > 1
             bufferSizeChanged == samplesPerBlock # oldBufferSize
             hasError == oldState = "Error"
             isInitAfterRelease == oldState = "Uninitialized" /\ oldSampleRate > 0
             isTrueFirstInit == oldState = "Uninitialized" /\ oldSampleRate = 0
             needsFullReinit == isTrueFirstInit \/ hasError \/ sampleRateChanged
             a1 == [a EXCEPT !.sampleRate = sampleRate,
                             !.samplesPerBlock = samplesPerBlock,
                             !.reloads = FALSE]
             r == initialize(a.segments, sampleRate, disk, gen)
             \* initializeSynth, and the loading branch of initializeSynthFast
             loaded == [a1 EXCEPT !.segments = r.segments,
                                  !.librarySampleRate = r.rate,
                                  !.reloads = TRUE,
                                  !.processingEnabled = FALSE,
                                  !.synthState =
                                      IF r.threw \/ ~hasValidSamples(r.segments)
                                      THEN "Error" ELSE "Ready"]
             a2 == IF needsFullReinit THEN loaded
                   ELSE IF isInitAfterRelease /\ ~sampleRateChanged
                   THEN IF hasValidSamples(a.segments)
                        THEN [a1 EXCEPT !.synthState = "Ready",
                                        !.processingEnabled = FALSE]
                        ELSE loaded
                   ELSE a1
         IN  [a2 EXCEPT !.processingEnabled = TRUE]

\* prepareToPlay on a = [synthState, processingEnabled, sampleRate,
\* samplesPerBlock, segments, librarySampleRate]; reloads tells whether
\* SampleLibrary::initialize cleared and reloaded the store (as buffer
\* generation gen).
prepareToPlay(a, sampleRate, samplesPerBlock, disk, gen) ==
    IF sampleRate <= 0 \/ sampleRate > 192000
       \/ samplesPerBlock <= 0 \/ samplesPerBlock > 8192
    THEN [a EXCEPT !.synthState = "Error", !.processingEnabled = FALSE,
                   !.reloads = FALSE]
    ELSE LET oldSampleRate == a.sampleRate
             oldBufferSize == a.samplesPerBlock
             oldState == a.synthState
             diff == sampleRate - oldSampleRate
             sampleRateChanged == (IF diff < 0 THEN -diff ELSE diff) > 1
             bufferSizeChanged == samplesPerBlock # oldBufferSize
             hasError == oldState = "Error"
             isInitAfterRelease == oldState = "Uninitialized" /\ oldSampleRate > 0
             isTrueFirstInit == oldState = "Uninitialized" /\ oldSampleRate = 0
             needsFullReinit == isTrueFirstInit \/ hasError \/ sampleRateChanged
             a1 == [a EXCEPT !.sampleRate = sampleRate,
                             !.samplesPerBlock = samplesPerBlock,
                             !.reloads = FALSE]
             r == initialize(a.segments, sampleRate, disk, gen)
             \* initializeSynth, and the loading branch of initializeSynthFast
             loaded == [a1 EXCEPT !.segments = r.segments,
                                  !.librarySampleRate = r.rate,
                                  !.reloads = TRUE,
                                  !.processingEnabled = FALSE,
                                  !.synthState =
                                      IF r.threw \/ ~hasValidSamples(r.segments)
                                      THEN "Error" ELSE "Ready"]
             a2 == IF needsFullReinit THEN loaded
                   ELSE IF isInitAfterRelease /\ ~sampleRateChanged
                   THEN IF hasValidSamples(a.segments)
                        THEN [a1 EXCEPT !.synthState = "Ready",
                                        !.processingEnabled = FALSE]
                        ELSE loaded
                   ELSE a1
         IN  IF a2.synthState = "Ready"
             THEN [a2 EXCEPT !.processingEnabled = TRUE]
             ELSE a2

\* a releaseResources that also frees the samples (SampleLibrary::clear)
releaseResources_ClearsStore(a) ==
    [a EXCEPT !.processingEnabled = FALSE, !.synthState = "Uninitialized",
              !.segments = clear(a.segments)]

releaseResources(a) ==
    [a EXCEPT !.processingEnabled = FALSE, !.synthState = "Uninitialized"]

\* ------------------------------------------------------------------------
\* State
\* ------------------------------------------------------------------------
VARIABLES
    voices,                        \* VoiceManager::voices_
    voicesStolenSinceLastRefresh,  \* VoiceManager::voicesStolenSinceLastRefresh_
    releaseVoicesStolen,           \* VoiceManager::releaseVoicesStolen_
    playingVoicesStolen,           \* VoiceManager::playingVoicesStolen_
    lastStats,                     \* VoiceManager::lastStats_
    sampleSegments,                \* SampleLibrary::sampleSegments_
    librarySampleRate,             \* SampleLibrary::sampleRate_
    libGen,                        \* number of initialize calls so far
    synthState,                    \* AudioPluginAudioProcessor::synthState_
    processingEnabled,             \* AudioPluginAudioProcessor::processingEnabled_
    sampleRate,                    \* AudioPluginAudioProcessor::sampleRate_
    samplesPerBlock,               \* AudioPluginAudioProcessor::samplesPerBlock_
    activeNotes,                   \* MidiStateManager::activeNotes_
    noteOnQueue,                   \* MidiStateManager::noteOnQueues_[0]
    noteOffQueue,                  \* MidiStateManager::noteOffQueues_[0]
    audioThread,                   \* where the audio thread is in processBlock
    controlThread,                 \* where the control thread is in prepareToPlay
    instrumentFiles,               \* the files of the instrument directory
    lastOp                         \* the branch the last operation took

vars == <<voices, voicesStolenSinceLastRefresh, releaseVoicesStolen,
          playingVoicesStolen, lastStats, sampleSegments, librarySampleRate,
          libGen, synthState, processingEnabled, sampleRate, samplesPerBlock,
          activeNotes, noteOnQueue, noteOffQueue, audioThread, controlThread,
          instrumentFiles, lastOp>>

poolVars == <<voices, voicesStolenSinceLastRefresh, releaseVoicesStolen,
              playingVoicesStolen, lastStats>>
libVars == <<sampleSegments, librarySampleRate, libGen>>
procVars == <<synthState, processingEnabled, sampleRate, samplesPerBlock>>
midiVars == <<activeNotes, noteOnQueue, noteOffQueue>>
threadVars == <<audioThread, controlThread>>

\* lastStats_ without dynamicLevelCount and averageProgress
VoiceStats0 ==
    [totalVoices |-> 0, activeVoices |-> 0, playingVoices |-> 0,
     releaseVoices |-> 0, inactiveVoices |-> 0, voicesStolenThisRefresh |-> 0,
     releaseVoicesStolen |-> 0, playingVoicesStolen |-> 0]

Pool ==
    [voices |-> voices,
     voicesStolenSinceLastRefresh |-> voicesStolenSinceLastRefresh,
     releaseVoicesStolen |-> releaseVoicesStolen,
     playingVoicesStolen |-> playingVoicesStolen,
     lastStats |-> lastStats,
     step |-> "none", voice |-> 0]

SetPool(p) ==
    /\ voices' = p.voices
    /\ voicesStolenSinceLastRefresh' = p.voicesStolenSinceLastRefresh
    /\ releaseVoicesStolen' = p.releaseVoicesStolen
    /\ playingVoicesStolen' = p.playingVoicesStolen
    /\ lastStats' = p.lastStats

Init ==
    /\ voices = [i \in Voices |-> reset]
    /\ voicesStolenSinceLastRefresh = 0
    /\ releaseVoicesStolen = 0
    /\ playingVoicesStolen = 0
    /\ lastStats = VoiceStats0
    /\ sampleSegments = [n \in LibNotes |-> EmptySegment]
    /\ librarySampleRate = 44100
    /\ libGen = 0
    /\ synthState = "Uninitialized"
    /\ processingEnabled = FALSE
    /\ sampleRate = 44100
    /\ samplesPerBlock = 512
    /\ activeNotes = [k \in Notes |-> [isActive |-> FALSE, velocity |-> 0]]
    /\ noteOnQueue = <<>>
    /\ noteOffQueue = <<>>
    /\ audioThread = "idle"
    /\ controlThread = "idle"
    /\ instrumentFiles = NoFiles
    /\ lastOp = "construct"

\* ------------------------------------------------------------------------
\* Operations on the voice pool, as processBlock drives them: any number of
\* startVoice / stopVoice calls, then generateAudio and refresh; the sample
\* store is (re)initialized only between blocks.
\* ------------------------------------------------------------------------
MaxQueueInPool == Max({voices[i].queue : i \in Voices})

NoteOn(midiNote, velocity) ==
    LET p == startVoice(Pool, sampleSegments, midiNote, velocity)
    IN  /\ lastOp' = p.step
        /\ SetPool(p)
        /\ UNCHANGED <<libVars, procVars, midiVars, threadVars, instrumentFiles>>

NoteOff(midiNote) ==
    LET p == stopVoice(Pool, midiNote)
    IN  /\ lastOp' = p.step
        /\ SetPool(p)
        /\ UNCHANGED <<libVars, procVars, midiVars, threadVars, instrumentFiles>>

\* generateAudio and refresh.  Rendering a voice whose buffer has been freed
\* reads freed memory: the block either completes or the process dies.
MixBlock(numSamples) ==
    LET p == refresh(generateAudio(Pool, numSamples))
        outcomes == {"mix"} \cup (IF ReadsFreed(voices, sampleSegments, numSamples)
                                  THEN {"crash"} ELSE {})
    IN  \E o \in outcomes :
            /\ lastOp' = o
            /\ IF o = "crash" THEN UNCHANGED poolVars ELSE SetPool(p)
            /\ UNCHANGED <<libVars, procVars, midiVars, threadVars, instrumentFiles>>

\* no block is in progress: the last operation ended a block, or none began
BetweenBlocks == lastOp \in {"construct", "mix", "initialize", "initializeThrew"}

LibraryInitialize(rate, disk) ==
    LET r == initialize(sampleSegments, rate, disk, libGen + 1)
    IN  /\ BetweenBlocks
        /\ sampleSegments' = r.segments
        /\ librarySampleRate' = IF r.rate > 0 THEN r.rate ELSE librarySampleRate
        /\ libGen' = libGen + 1
        /\ lastOp' = IF r.threw THEN "initializeThrew" ELSE "initialize"
        /\ UNCHANGED <<poolVars, procVars, midiVars, threadVars, instrumentFiles>>

BlockSizes == {BlockFrames}

PoolNoteOn ==
    \E n \in Notes, v \in Velocities :
        /\ MaxQueueInPool < RankCap
        /\ voicesStolenSinceLastRefresh < MaxSteals
        /\ NoteOn(n, v)

PoolNoteOff == \E n \in Notes : NoteOff(n)

PoolMixBlock == \E k \in BlockSizes : MixBlock(k)

PoolLibraryInitialize ==
    \E d \in DiskStates : libGen = 0 /\ LibraryInitialize(44100, d)

SpecPool == Init /\ [][PoolNoteOn
          \/ PoolNoteOff
          \/ PoolMixBlock
          \/ PoolLibraryInitialize]_vars

\* The pool played on two keys while the host keeps calling generateAudio:
\* every behaviour mixes block after block for as long as a block moves a
\* voice.
ReleaseNotes == {60, 61}

ReleaseNoteOn ==
    \E n \in ReleaseNotes, v \in Velocities :
        /\ MaxQueueInPool < RankCap
        /\ NoteOn(n, v)

ReleaseNoteOff == \E n \in ReleaseNotes : NoteOff(n)

ReleaseLibraryInitialize == libGen = 0 /\ LibraryInitialize(44100, DiskFull)

\* the part of PoolMixBlock that moves the voices: generateAudio
RenderAdvances == \E k \in BlockSizes : voices' = generateAudio(Pool, k).voices

SpecRelease == Init /\ [][ReleaseNoteOn
          \/ ReleaseNoteOff
          \/ PoolMixBlock
          \/ ReleaseLibraryInitialize]_vars /\ WF_voices(RenderAdvances)

\* the process has not died
Running == lastOp # "crash"

\* ------------------------------------------------------------------------
\* The voice pool while the sample store is re-initialized between blocks,
\* as prepareToPlay does on a sample-rate change or from the Error state.
\* ------------------------------------------------------------------------
ReinitNoteOn ==
    \E n \in Notes, v \in Velocities :
        /\ Running
        /\ MaxQueueInPool < RankCap
        /\ voicesStolenSinceLastRefresh < MaxSteals
        /\ NoteOn(n, v)

ReinitNoteOff == \E n \in Notes : Running /\ NoteOff(n)

ReinitMixBlock == \E k \in BlockSizes : Running /\ MixBlock(k)

ReinitLibrary ==
    \E rate \in {44100, 48000}, d \in DiskStates :
        /\ libGen < MaxGen
        /\ rate # librarySampleRate \/ libGen = 0
        /\ LibraryInitialize(rate, d)

SpecReinit == Init /\ [][ReinitNoteOn
          \/ ReinitNoteOff
          \/ ReinitMixBlock
          \/ ReinitLibrary]_vars

\* ------------------------------------------------------------------------
\* The voice pool over a long run of allocations: ranks are not capped, the
\* store holds every layer.
\* ------------------------------------------------------------------------
RankNoteOn ==
    \E n \in Notes, v \in Velocities :
        /\ voicesStolenSinceLastRefresh < MaxSteals
        /\ NoteOn(n, v)

RankMixBlock == \E k \in BlockSizes : MixBlock(k)

RankLibraryInitialize == libGen = 0 /\ LibraryInitialize(44100, DiskFull)

SpecRank == Init /\ [][RankNoteOn
          \/ RankMixBlock
          \/ RankLibraryInitialize]_vars

\* ------------------------------------------------------------------------
\* The processor: prepareToPlay, releaseResources and processBlock as the
\* host calls them, one call at a time.
\* ------------------------------------------------------------------------
SampleRates == {0, 44100, 48000}
BufferSizes == {0, 512}
PrepareDisks == {DiskFull, DiskUnusable}

\* the keys the host sends
MidiNotes == {60, 61}

\* the key of the single-key specifications
LevelNote == 60

MidiMessages ==
    [type : {"on"}, note : MidiNotes, velocity : Velocities]
        \cup [type : {"off"}, note : MidiNotes, velocity : {0}]

MidiBuffers ==
    UNION {[1..k -> MidiMessages] : k \in 0..MaxMidiPerBlock}

Proc ==
    [synthState |-> synthState,
     processingEnabled |-> processingEnabled,
     sampleRate |-> sampleRate,
     samplesPerBlock |-> samplesPerBlock,
     segments |-> sampleSegments,
     librarySampleRate |-> librarySampleRate,
     reloads |-> FALSE]

SetProc(a) ==
    /\ synthState' = a.synthState
    /\ processingEnabled' = a.processingEnabled
    /\ sampleRate' = a.sampleRate
    /\ samplesPerBlock' = a.samplesPerBlock
    /\ sampleSegments' = a.segments
    /\ librarySampleRate' = a.librarySampleRate

Midi ==
    [activeNotes |-> activeNotes,
     noteOnQueue |-> noteOnQueue,
     noteOffQueue |-> noteOffQueue]

PrepareToPlay(rate, block, disk) ==
    LET a == prepareToPlay(Proc, rate, block, disk, libGen + 1)
    IN  /\ Running
        /\ a.reloads => libGen < MaxGen
        /\ SetProc(a)
        /\ libGen' = IF a.reloads THEN libGen + 1 ELSE libGen
        /\ lastOp' = IF synthState = "Uninitialized" /\ a.synthState = "Ready"
                         /\ ~a.reloads
                      THEN "prepareToPlayFast" ELSE "prepareToPlay"
        /\ UNCHANGED <<poolVars, midiVars, threadVars, instrumentFiles>>

ReleaseResources ==
    /\ Running
    /\ SetProc(releaseResources(Proc))
    /\ lastOp' = "releaseResources"
    /\ UNCHANGED <<libGen, poolVars, midiVars, threadVars, instrumentFiles>>

\* a processBlock that looks at neither processingEnabled nor the state
ProcessBlock_IgnoresState(midiMessages, numSamples) ==
    LET m1 == putMidiMessages(Midi, midiMessages)
        p1 == processMidiEvents(Pool, sampleSegments, m1)
        p2 == refresh(generateAudio(p1, numSamples))
    IN  /\ Running
        /\ lastOp' = IF numSamples <= 0 THEN "blockSkipped" ELSE "processBlock"
        /\ IF numSamples > 0
           THEN /\ \A i \in Voices : p2.voices[i].queue <= MaxRank
                /\ SetPool(p2)
                /\ activeNotes' = m1.activeNotes
                /\ noteOnQueue' = drainQueue(m1.noteOnQueue)
                /\ noteOffQueue' = drainQueue(m1.noteOffQueue)
           ELSE UNCHANGED <<poolVars, midiVars>>
        /\ UNCHANGED <<libVars, procVars, threadVars, instrumentFiles>>

\* processBlock: skipped unless processing is enabled and the state is
\* Ready; otherwise the MIDI of the block is queued, processMidiEvents
\* drains the queues, generateAudio mixes and refresh runs.
ProcessBlock(midiMessages, numSamples) ==
    LET m1 == putMidiMessages(Midi, midiMessages)
        p1 == processMidiEvents(Pool, sampleSegments, m1)
        p2 == refresh(generateAudio(p1, numSamples))
        skipped == ~processingEnabled \/ synthState # "Ready" \/ numSamples <= 0
        outcomes == IF skipped THEN {"blockSkipped"}
                    ELSE {"processBlock"}
                         \cup (IF ReadsFreed(p1.voices, sampleSegments, numSamples)
                               THEN {"crash"} ELSE {})
    IN  \E o \in outcomes :
            /\ Running
            /\ lastOp' = o
            /\ IF o = "processBlock"
               THEN /\ \A i \in Voices : p2.voices[i].queue <= MaxRank
                    /\ SetPool(p2)
                    /\ activeNotes' = m1.activeNotes
                    /\ noteOnQueue' = drainQueue(m1.noteOnQueue)
                    /\ noteOffQueue' = drainQueue(m1.noteOffQueue)
               ELSE UNCHANGED <<poolVars, midiVars>>
            /\ UNCHANGED <<libVars, procVars, threadVars, instrumentFiles>>

HostPrepareToPlay ==
    \E rate \in SampleRates, block \in BufferSizes, disk \in PrepareDisks :
        PrepareToPlay(rate, block, disk)

HostProcessBlock ==
    \E midiMessages \in MidiBuffers, k \in BlockSizes :
        ProcessBlock(midiMessages, k)

Next == HostPrepareToPlay \/ ReleaseResources \/ HostProcessBlock

Spec == Init /\ [][Next]_vars

\* The same host driving the lifecycle while one key is played: every block
\* carries no message, a note-on or a note-off of that key.
LifecycleMidi ==
    {<<>>,
     <<[type |-> "on", note |-> LevelNote, velocity |-> 100]>>,
     <<[type |-> "off", note |-> LevelNote, velocity |-> 0]>>}

LifecycleProcessBlock ==
    \E midiMessages \in LifecycleMidi, k \in BlockSizes :
        ProcessBlock(midiMessages, k)

\* the host's parameters, with values on both sides of the accepted ranges
LifecycleRates == {0, 44100, 48000, 192001}
LifecycleBufferSizes == {0, 512, 8193}

LifecyclePrepareToPlay ==
    \E rate \in LifecycleRates, block \in LifecycleBufferSizes,
       disk \in PrepareDisks :
        PrepareToPlay(rate, block, disk)

SpecLifecycle == Init /\ [][LifecyclePrepareToPlay
          \/ ReleaseResources
          \/ LifecycleProcessBlock]_vars

\* ------------------------------------------------------------------------
\* Two threads: the control thread runs prepareToPlay and releaseResources,
\* the audio thread runs processBlock.  processBlock reads processingEnabled_
\* and synthState_ once, on entry; prepareToPlay stores them and then calls
\* SampleLibrary::initialize, which clears the store and loads it again.  The
\* steps of one thread interleave with the steps of the other.
\* ------------------------------------------------------------------------
ThreadRates == {44100, 48000}

\* processBlock up to its test of processingEnabled_ and synthState_
AudioBegin ==
    /\ Running
    /\ audioThread = "idle"
    /\ IF ~processingEnabled \/ synthState # "Ready"
       THEN lastOp' = "blockSkipped" /\ audioThread' = "idle"
       ELSE lastOp' = "blockBegin" /\ audioThread' = "inBlock"
    /\ UNCHANGED <<poolVars, libVars, procVars, midiVars, controlThread,
                     instrumentFiles>>

\* the rest of processBlock: the MIDI of the block, processMidiEvents,
\* generateAudio, refresh.  Reading the store while initialize mutates it, or
\* a buffer it has freed, is a data race: the block completes or the process
\* dies.
AudioEnd(midiMessages, numSamples) ==
    LET m1 == putMidiMessages(Midi, midiMessages)
        p1 == processMidiEvents(Pool, sampleSegments, m1)
        p2 == refresh(generateAudio(p1, numSamples))
        outcomes == {"processBlock"}
                    \cup (IF \/ controlThread = "initializing"
                             \/ ReadsFreed(p1.voices, sampleSegments, numSamples)
                          THEN {"crash"} ELSE {})
    IN  \E o \in outcomes :
            /\ Running
            /\ audioThread = "inBlock"
            /\ lastOp' = o
            /\ audioThread' = "idle"
            /\ IF o = "processBlock"
               THEN /\ \A i \in Voices : p2.voices[i].queue <= MaxRank
                    /\ SetPool(p2)
                    /\ activeNotes' = m1.activeNotes
                    /\ noteOnQueue' = drainQueue(m1.noteOnQueue)
                    /\ noteOffQueue' = drainQueue(m1.noteOffQueue)
               ELSE UNCHANGED <<poolVars, midiVars>>
            /\ UNCHANGED <<libVars, procVars, controlThread,
                     instrumentFiles>>

\* prepareToPlay up to its call of initializeSynth / SampleLibrary::initialize;
\* a call that does not reload the store runs to its end
ControlBeginPrepare(rate, block) ==
    LET a == prepareToPlay(Proc, rate, block, DiskFull, libGen + 1)
    IN  /\ Running
        /\ controlThread = "idle"
        /\ IF a.reloads
           THEN /\ libGen < MaxGen
                /\ processingEnabled' = FALSE
                /\ synthState' = "Initializing"
                /\ sampleRate' = rate
                /\ samplesPerBlock' = block
                /\ UNCHANGED sampleSegments
                /\ UNCHANGED librarySampleRate
                /\ controlThread' = "beforeInitialize"
                /\ lastOp' = "prepareBegin"
           ELSE /\ SetProc(a)
                /\ controlThread' = "idle"
                /\ lastOp' = "prepareToPlay"
        /\ UNCHANGED <<libGen, poolVars, midiVars, audioThread,
                     instrumentFiles>>

\* SampleLibrary::initialize is entered: it stores the rate and clears
ControlInitializeClear ==
    /\ Running
    /\ controlThread = "beforeInitialize"
    /\ sampleSegments' = clear(sampleSegments)
    /\ librarySampleRate' = sampleRate
    /\ controlThread' = "initializing"
    /\ lastOp' = "initializeClear"
    /\ UNCHANGED <<libGen, poolVars, procVars, midiVars, audioThread,
                     instrumentFiles>>

\* SampleLibrary::initialize loads the store and returns; prepareToPlay ends
ControlInitializeLoad(disk) ==
    LET r == initialize(sampleSegments, sampleRate, disk, libGen + 1)
        ok == ~r.threw /\ hasValidSamples(r.segments)
    IN  /\ Running
        /\ controlThread = "initializing"
        /\ sampleSegments' = r.segments
        /\ librarySampleRate' = r.rate
        /\ libGen' = libGen + 1
        /\ synthState' = IF ok THEN "Ready" ELSE "Error"
        /\ processingEnabled' = ok
        /\ controlThread' = "idle"
        /\ lastOp' = "prepareToPlay"
        /\ UNCHANGED <<sampleRate, samplesPerBlock, poolVars, midiVars, audioThread,
                     instrumentFiles>>

ThreadAudioEnd ==
    \E midiMessages \in LifecycleMidi, k \in BlockSizes : AudioEnd(midiMessages, k)

ThreadPrepareToPlay ==
    \E rate \in ThreadRates : ControlBeginPrepare(rate, 512)

ThreadInitializeLoad == \E disk \in PrepareDisks : ControlInitializeLoad(disk)

SpecThreads == Init /\ [][AudioBegin
          \/ ThreadAudioEnd
          \/ ThreadPrepareToPlay
          \/ ControlInitializeClear
          \/ ThreadInitializeLoad
          \/ (controlThread = "idle" /\ ReleaseResources)]_vars

\* ------------------------------------------------------------------------
\* The layer search: one key played at every velocity layer over a store that
\* holds any subset of the key's eight layers.
\* ------------------------------------------------------------------------
LevelVelocities == {16 * l + 1 : l \in Levels}

DiskLayers(S) ==
    [dirOk |-> TRUE,
     layers |-> [n \in LibNotes |-> IF n = LevelNote THEN S ELSE {}],
     len |-> LongSampleLength]

LevelInit ==
    /\ voices = [i \in Voices |-> reset]
    /\ voicesStolenSinceLastRefresh = 0
    /\ releaseVoicesStolen = 0
    /\ playingVoicesStolen = 0
    /\ lastStats = VoiceStats0
    /\ \E S \in SUBSET Levels :
          sampleSegments =
              initialize([n \in LibNotes |-> EmptySegment], 44100, DiskLayers(S), 1).segments
    /\ librarySampleRate = 44100
    /\ libGen = 1
    /\ synthState = "Uninitialized"
    /\ processingEnabled = FALSE
    /\ sampleRate = 44100
    /\ samplesPerBlock = 512
    /\ activeNotes = [k \in Notes |-> [isActive |-> FALSE, velocity |-> 0]]
    /\ noteOnQueue = <<>>
    /\ noteOffQueue = <<>>
    /\ audioThread = "idle"
    /\ controlThread = "idle"
    /\ instrumentFiles = NoFiles
    /\ lastOp = "initialize"

LevelNoteOn ==
    \E v \in LevelVelocities : MaxQueueInPool < RankCap /\ NoteOn(LevelNote, v)

SpecLevel == LevelInit /\ [][LevelNoteOn]_vars

\* ------------------------------------------------------------------------
\* The velocity mapping: one key played at every velocity over a store that
\* holds every layer, so that the layer played is the layer mapped.
\* ------------------------------------------------------------------------
MidiVelocities == 0..127

VelocityInit ==
    /\ voices = [i \in Voices |-> reset]
    /\ voicesStolenSinceLastRefresh = 0
    /\ releaseVoicesStolen = 0
    /\ playingVoicesStolen = 0
    /\ lastStats = VoiceStats0
    /\ sampleSegments =
          initialize([n \in LibNotes |-> EmptySegment], 44100, DiskFull, 1).segments
    /\ librarySampleRate = 44100
    /\ libGen = 1
    /\ synthState = "Uninitialized"
    /\ processingEnabled = FALSE
    /\ sampleRate = 44100
    /\ samplesPerBlock = 512
    /\ activeNotes = [k \in Notes |-> [isActive |-> FALSE, velocity |-> 0]]
    /\ noteOnQueue = <<>>
    /\ noteOffQueue = <<>>
    /\ audioThread = "idle"
    /\ controlThread = "idle"
    /\ instrumentFiles = NoFiles
    /\ lastOp = "initialize"

VelocityNoteOn ==
    \E v \in MidiVelocities \ {0} : MaxQueueInPool < RankCap /\ NoteOn(LevelNote, v)

SpecVelocity == VelocityInit /\ [][VelocityNoteOn]_vars

\* ------------------------------------------------------------------------
\* Shorthands for the properties
\* ------------------------------------------------------------------------
NoteOnSteps == {"restart", "free", "stealRelease", "stealPlaying", "failure"}

Holds(vs, midiNote) == \E i \in DOMAIN vs : isActive(vs[i]) /\ vs[i].midiNote = midiNote

HasLayer(lib, midiNote) == \E l \in Levels : isNoteAvailable(lib, midiNote, l)

ActiveCount(vs) == Cardinality({i \in DOMAIN vs : isActive(vs[i])})

\* the inputs of any noteOn / noteOff the model can take
AnyNote == Notes
AnyVelocity == Velocities

\* C1: in every reachable state the priority ranks of the N voices are
\* exactly the set {0,...,N-1}, no two voices holding the same rank.
C1_RanksArePermutation ==
    /\ {voices[i].queue : i \in Voices} = 0..(NumVoices - 1)
    /\ \A i, j \in Voices : i # j => voices[i].queue # voices[j].queue

\* C2: after any sequence of prepareToPlay, releaseResources and processBlock
\* calls, no Playing or Release voice holds a pointer to a layer buffer that
\* the sample store has freed or replaced.
C2_NoFreedBuffer ==
    \A i \in Voices :
        isActive(voices[i]) => voices[i].sampleData \in LiveBuffers(sampleSegments)

\* C3: at most one Playing or Release voice is assigned to any MIDI note.
C3_OneActiveVoicePerNote ==
    \A i, j \in Voices :
        (i # j /\ isActive(voices[i]) /\ isActive(voices[j]))
            => voices[i].midiNote # voices[j].midiNote

\* a restart has just re-triggered a voice while every voice is sounding
C3_Witness ==
    /\ lastOp = "restart"
    /\ \A i \in Voices : isActive(voices[i])
    /\ \E i \in Voices : isInRelease(voices[i])

\* C4: when noteOn(n) arrives while a voice for note n is active, that voice
\* is re-triggered (Playing n, cursor 0, release counter 0) and no other
\* voice's state, note or cursor changes.
C4_RestartRetriggers ==
    [][\A n \in AnyNote, v \in AnyVelocity :
        (Holds(voices, n) /\ lastOp' \in NoteOnSteps /\ NoteOn(n, v)) =>
            \E i \in Voices :
                /\ isActive(voices[i]) /\ voices[i].midiNote = n
                /\ isPlaying(voices'[i])
                /\ voices'[i].midiNote = n
                /\ voices'[i].position = 0
                /\ voices'[i].releaseCounter = 0
                /\ \A j \in Voices \ {i} :
                        /\ voices'[j].voiceState = voices[j].voiceState
                        /\ voices'[j].midiNote = voices[j].midiNote
                        /\ voices'[j].position = voices[j].position
      ]_vars

\* C5: noteOn follows the order restart, free allocation, release stealing,
\* playing stealing: it takes no Release or Playing voice away from another
\* note while an Inactive voice exists, and steals no Playing voice while a
\* Release voice exists.
C5_StrictAllocationOrder ==
    [][\A n \in AnyNote, v \in AnyVelocity :
        (lastOp' \in NoteOnSteps /\ NoteOn(n, v)) =>
            LET anyInactive == \E i \in Voices : isInactive(voices[i])
                anyRelease == \E i \in Voices : isInRelease(voices[i])
                held == Holds(voices, n)
                keeps(i) == /\ voices'[i].voiceState = voices[i].voiceState
                            /\ voices'[i].midiNote = voices[i].midiNote
            IN  /\ anyInactive =>
                    \A i \in Voices :
                        (isActive(voices[i]) /\ voices[i].midiNote # n) => keeps(i)
                /\ anyRelease =>
                    \A i \in Voices :
                        (isPlaying(voices[i]) /\ voices[i].midiNote # n) => keeps(i)
                /\ held =>
                    \A i \in Voices :
                        ~(isActive(voices[i]) /\ voices[i].midiNote = n)
                            => voices'[i] = voices[i]
                /\ lastOp' = IF held THEN "restart"
                             ELSE IF anyInactive THEN "free"
                             ELSE IF anyRelease THEN "stealRelease"
                             ELSE "stealPlaying"
      ]_vars

\* a Release voice was stolen and an older Playing voice was spared
C5_Witness ==
    /\ lastOp = "stealRelease"
    /\ \E i \in Voices : isPlaying(voices[i]) /\ voices[i].position > 0

\* C6: after a free allocation or a steal the chosen voice's rank is
\* strictly greater than the rank of every other voice, after any number of
\* preceding allocations.
C6_ChosenVoiceOutranksAll ==
    [][\A n \in AnyNote, v \in AnyVelocity :
        (lastOp' \in {"free", "stealRelease", "stealPlaying"} /\ NoteOn(n, v)) =>
            LET chosen == startVoice(Pool, sampleSegments, n, v).voice
            IN  \A j \in Voices \ {chosen} :
                    voices'[chosen].queue > voices'[j].queue
      ]_vars

\* C7: when every voice is Playing and noteOn(B) arrives for a note B that no
\* voice holds and that has an available layer, exactly one voice changes:
\* the Playing voice of lowest rank (highest progress among equal ranks) now
\* plays B, the number of active voices is unchanged, and the playing-steal
\* counter and the total steal counter each grow by one.
C7_PlayingSteal ==
    [][\A n \in AnyNote, v \in AnyVelocity :
        ( /\ \A i \in Voices : isPlaying(voices[i])
          /\ ~Holds(voices, n)
          /\ HasLayer(sampleSegments, n)
          /\ NoteOn(n, v) )
        => \E i \in Voices :
              /\ \A j \in Voices : voices[j].queue >= voices[i].queue
              /\ \A j \in Voices :
                    voices[j].queue = voices[i].queue
                        => ~ProgressGreater(getProgress(voices[j]), getProgress(voices[i]))
              /\ isPlaying(voices'[i])
              /\ voices'[i].midiNote = n
              /\ \A j \in Voices \ {i} : voices'[j] = voices[j]
              /\ ActiveCount(voices') = ActiveCount(voices)
              /\ playingVoicesStolen' = playingVoicesStolen + 1
              /\ voicesStolenSinceLastRefresh' = voicesStolenSinceLastRefresh + 1
      ]_vars

\* a Playing voice has just been stolen in a full pool
C7_Witness ==
    /\ lastOp = "stealPlaying"
    /\ playingVoicesStolen > 0
    /\ \A i \in Voices : isPlaying(voices[i])

\* C8: when no voice is Inactive and some voice is in Release, noteOn for a
\* new note steals the Release voice of lowest rank, among equal lowest
\* ranks the one with most release time elapsed; no Playing voice changes.
C8_ReleaseSteal ==
    [][\A n \in AnyNote, v \in AnyVelocity :
        ( /\ \A i \in Voices : ~isInactive(voices[i])
          /\ \E i \in Voices : isInRelease(voices[i])
          /\ ~Holds(voices, n)
          /\ NoteOn(n, v) )
        => \E i \in Voices :
              /\ isInRelease(voices[i])
              /\ \A j \in Voices :
                    isInRelease(voices[j]) => voices[j].queue >= voices[i].queue
              /\ \A j \in Voices :
                    (isInRelease(voices[j]) /\ voices[j].queue = voices[i].queue)
                        => voices[j].releaseCounter <= voices[i].releaseCounter
              /\ voices'[i].midiNote = n
              /\ ~isInRelease(voices'[i])
              /\ \A j \in Voices \ {i} : voices'[j] = voices[j]
              /\ releaseVoicesStolen' = releaseVoicesStolen + 1
      ]_vars

\* a Release voice has just been stolen
C8_Witness ==
    /\ lastOp = "stealRelease"
    /\ releaseVoicesStolen > 0
    /\ \A i \in Voices : isActive(voices[i])

\* C9: noteOff(n) moves the Playing voice of note n into Release and changes
\* nothing else; with no voice Playing note n it leaves every voice's state,
\* cursor, release counter and rank unchanged.
C9_NoteOffFrame ==
    [][\A n \in AnyNote :
        (lastOp' \in {"noteOff", "noteOffMiss"} /\ NoteOff(n)) =>
            LET S == {i \in Voices : isPlaying(voices[i]) /\ voices[i].midiNote = n}
            IN  /\ S # {} =>
                    \E i \in S :
                        voices' = [voices EXCEPT ![i].voiceState = "Release"]
                /\ S = {} => voices' = voices
                /\ UNCHANGED <<voicesStolenSinceLastRefresh, releaseVoicesStolen,
                               playingVoicesStolen, lastStats, libVars>>
      ]_vars

\* a noteOff has just put a voice into Release
C9_Witness ==
    /\ lastOp = "noteOff"
    /\ \E i \in Voices : isInRelease(voices[i]) /\ voices[i].releaseCounter = 0

C11_ReleaseEnds ==
    /\ \A i \in Voices :
          isInRelease(voices[i]) ~> (isInactive(voices[i]) \/ isPlaying(voices[i]))
    /\ [](\A i \in Voices : \A k \in BlockSizes :
            isInactive(voices[i]) =>
                /\ generateAudio(Pool, k).voices[i] = voices[i]
                /\ framesMixed(voices[i], k) = 0)

\* a block has just ended a release through the release timer
C11_Witness ==
    /\ lastOp = "mix"
    /\ \E i \in Voices :
          /\ isInactive(voices[i])
          /\ voices[i].sampleData # NullPtr
          /\ voices[i].releaseCounter >= RELEASE_DURATION_SAMPLES
          /\ voices[i].position < voices[i].currentSampleLength

\* C12: a Playing voice whose sample has at least RELEASE_DURATION_SAMPLES
\* frames left and that is put into Release has exactly
\* RELEASE_DURATION_SAMPLES (4800) frames mixed by the following render calls
\* before it turns Inactive, whatever the block size.
ReleaseBlockSizes == BlockSizes \cup {512, RELEASE_DURATION_SAMPLES}

C12_ReleaseMixes4800 ==
    \A i \in Voices :
        (/\ isPlaying(voices[i])
         /\ voices[i].currentSampleLength - voices[i].position
                >= RELEASE_DURATION_SAMPLES)
        => \A k \in ReleaseBlockSizes :
               framesUntilInactive(startRelease(voices[i]), k)
                   = RELEASE_DURATION_SAMPLES

\* C13: in every reachable state a voice's playback cursor is at most the
\* length of its current layer; a block rendered from the state leaves it so
\* (every frame index read is below the layer length), and getProgress is a
\* fraction between 0 and 1.
C13_CursorWithinLayer ==
    \A i \in Voices :
        /\ voices[i].position <= voices[i].currentSampleLength
        /\ \A k \in BlockSizes :
              voices[i].position + framesMixed(voices[i], k)
                  <= voices[i].currentSampleLength
        /\ LET progress == getProgress(voices[i])
           IN  0 <= progress[1] /\ progress[1] <= progress[2] /\ progress[2] > 0

\* a block has just played a voice to the end of its layer
C13_Witness ==
    /\ lastOp = "mix"
    /\ \E i \in Voices :
          /\ isInactive(voices[i])
          /\ voices[i].currentSampleLength > 0
          /\ voices[i].position = voices[i].currentSampleLength

\* C14: for every note, every preferred layer 0..7 and every set of
\* available layers of the note, findBestAvailableLevel returns the preferred
\* layer when it is available, otherwise the available layer nearest to it
\* (the lower one of two equally near), and 255 when the note has no layer.
AvailableLevels(lib, midiNote) ==
    {l \in Levels : isNoteAvailable(lib, midiNote, l)}

Offset(a, b) == IF a >= b THEN a - b ELSE b - a

SearchedNotes == LibNotes \cup {MIN_NOTE - 1, MAX_NOTE + 1}

C14_NearestLayer ==
    \A n \in SearchedNotes, preferred \in Levels :
        LET A == AvailableLevels(sampleSegments, n)
            found == findBestAvailableLevel(sampleSegments, n, preferred)
        IN  /\ preferred \in A => found = preferred
            /\ A = {} => found = NoLevel
            /\ A # {} =>
                  /\ found \in A
                  /\ \A l \in A :
                        \/ Offset(found, preferred) < Offset(l, preferred)
                        \/ /\ Offset(found, preferred) = Offset(l, preferred)
                           /\ found <= l

\* a voice plays the lower of two layers equally near the missing preferred one
C14_Witness ==
    \E i \in Voices :
        LET preferred == velocityToDynamicLevel(voices[i].velocity)
            A == AvailableLevels(sampleSegments, voices[i].midiNote)
        IN  /\ isPlaying(voices[i])
            /\ preferred \notin A
            /\ preferred >= 1 /\ preferred - 1 \in A /\ preferred + 1 \in A
            /\ voices[i].currentDynamicLevel = preferred - 1

\* C15: a noteOn for a note that has no available layer leaves every voice
\* as it was: the state, note, cursor and rank of each voice are the same
\* after the noteOn as before it, whatever the occupancy of the pool.
C15_UnavailableNoteDropped ==
    [][\A n \in AnyNote, v \in AnyVelocity :
          (/\ lastOp' \in NoteOnSteps
           /\ ~HasLayer(sampleSegments, n)
           /\ NoteOn(n, v))
          => \A i \in Voices :
                /\ voices'[i].voiceState = voices[i].voiceState
                /\ voices'[i].midiNote = voices[i].midiNote
                /\ voices'[i].position = voices[i].position
                /\ voices'[i].queue = voices[i].queue]_vars

\* C16: velocityToDynamicLevel maps velocity 0 to layer 0 and the velocities
\* 16*l+1 .. 16*l+16 to layer l (1..16 to 0, 17..32 to 1, ..., 113..127 to
\* 7); it is monotonic non-decreasing over 0..127, maps 127 to 7 and reaches
\* every layer 0..7; a voice started over a full store plays the layer its
\* velocity maps to.
C16_VelocityMapping ==
    /\ velocityToDynamicLevel(0) = 0
    /\ velocityToDynamicLevel(127) = 7
    /\ \A v \in MidiVelocities \ {0} : \A l \in Levels :
          velocityToDynamicLevel(v) = l <=> (16 * l + 1 <= v /\ v <= 16 * l + 16)
    /\ \A v, w \in MidiVelocities :
          v <= w => velocityToDynamicLevel(v) <= velocityToDynamicLevel(w)
    /\ {velocityToDynamicLevel(v) : v \in MidiVelocities} = Levels
    /\ \A i \in Voices :
          isPlaying(voices[i]) =>
              voices[i].currentDynamicLevel
                  = (IF voices[i].velocity = 0 THEN 0
                     ELSE Min({7, (voices[i].velocity - 1) \div 16}))

\* a voice started at the first velocity of a layer plays that layer, and a
\* voice started at velocity 127 plays layer 7
C16_Witness ==
    \E i \in Voices :
        /\ isPlaying(voices[i])
        /\ voices[i].velocity \in {17, 127}
        /\ voices[i].currentDynamicLevel = (voices[i].velocity - 1) \div 16

\* C17: a processBlock that runs while processing is disabled or the
\* lifecycle state is not Ready is skipped: the buffer is cleared (all zeros,
\* no voice is mixed) and the call changes nothing of the voice pool and
\* applies no MIDI event of the block.
BlockOutcomes == {"blockSkipped", "processBlock", "crash"}

C17_NotReadyIsSilent ==
    [][\A midiMessages \in LifecycleMidi, k \in BlockSizes :
          (/\ lastOp' \in BlockOutcomes
           /\ (~processingEnabled \/ synthState # "Ready")
           /\ ProcessBlock(midiMessages, k))
          => /\ lastOp' = "blockSkipped"
             /\ voices' = voices
             /\ UNCHANGED <<poolVars, midiVars>>]_vars

\* a block was skipped after releaseResources while a voice was still sounding
C17_Witness ==
    /\ lastOp = "blockSkipped"
    /\ synthState # "Ready"
    /\ hasValidSamples(sampleSegments)
    /\ \E i \in Voices : isActive(voices[i])

\* C18: prepareToPlay called with a sample rate <= 0 or > 192000, or a block
\* size <= 0 or > 8192, ends in state Error with processing disabled, leaves
\* the sample store as it was (no initialize, no clear) and keeps the stored
\* sample rate and block size.
C18_InvalidParametersRejected ==
    [][\A rate \in LifecycleRates, block \in LifecycleBufferSizes,
         disk \in PrepareDisks :
          (/\ lastOp' = "prepareToPlay"
           /\ (rate <= 0 \/ rate > 192000 \/ block <= 0 \/ block > 8192)
           /\ PrepareToPlay(rate, block, disk))
          => /\ synthState' = "Error"
             /\ processingEnabled' = FALSE
             /\ UNCHANGED <<sampleSegments, librarySampleRate, libGen>>
             /\ sampleRate' = sampleRate
             /\ samplesPerBlock' = samplesPerBlock]_vars

\* a call was rejected after the synth had been Ready at 48000 Hz: the store
\* still holds its layers and the stored parameters are the earlier ones
C18_Witness ==
    /\ lastOp = "prepareToPlay"
    /\ synthState = "Error"
    /\ processingEnabled = FALSE
    /\ hasValidSamples(sampleSegments)
    /\ sampleRate = 48000
    /\ samplesPerBlock = 512

C20_InitializeNeverOverlapsBlock ==
    /\ controlThread = "initializing" => processingEnabled = FALSE
    /\ ~(controlThread = "initializing" /\ audioThread = "inBlock")

\* ------------------------------------------------------------------------
\* The loader over the instrument directory.  Before the first load every
\* file is missing, unreadable, or a recording of SAMPLE_SECONDS seconds at
\* the rate of its name; initialize then loads at either rate, each of its
\* saves writing or failing.
\* ------------------------------------------------------------------------
\* whether each save of one loadSingleSample writes its file
SaveOutcomes == [1..2 -> BOOLEAN]

LoaderInit ==
    /\ voices = [i \in Voices |-> reset]
    /\ voicesStolenSinceLastRefresh = 0
    /\ releaseVoicesStolen = 0
    /\ playingVoicesStolen = 0
    /\ lastStats = VoiceStats0
    /\ sampleSegments = [n \in LibNotes |-> EmptySegment]
    /\ librarySampleRate = 44100
    /\ libGen = 0
    /\ synthState = "Uninitialized"
    /\ processingEnabled = FALSE
    /\ sampleRate = 44100
    /\ samplesPerBlock = 512
    /\ activeNotes = [k \in Notes |-> [isActive |-> FALSE, velocity |-> 0]]
    /\ noteOnQueue = <<>>
    /\ noteOffQueue = <<>>
    /\ audioThread = "idle"
    /\ controlThread = "idle"
    /\ LET Recording(rate) ==
               [exists |-> TRUE, valid |-> TRUE, rate |-> rate,
                length |-> rate * SAMPLE_SECONDS]
       IN  instrumentFiles \in
               [LoaderPairs -> [f44 : {NoFile, InvalidFile, Recording(44100)},
                                f48 : {NoFile, InvalidFile, Recording(48000)}]]
    /\ lastOp = "construct"

LoaderInitialize ==
    \E rate \in ThreadRates, writes \in [LoaderPairs -> SaveOutcomes] :
        LET r == initializeFromFiles(sampleSegments, rate, instrumentFiles,
                                     writes, libGen + 1)
        IN  /\ libGen < MaxGen
            /\ sampleSegments' = r.segments
            /\ librarySampleRate' = rate
            /\ libGen' = libGen + 1
            /\ instrumentFiles' = r.files
            /\ lastOp' = IF r.threw THEN "initializeThrew" ELSE "initialize"
            /\ UNCHANGED <<poolVars, procVars, midiVars, threadVars>>

SpecLoader == LoaderInit /\ [][LoaderInitialize]_vars

\* C21: loadSingleSample never fails: at either target rate and whatever
\* the two files of the note and layer are (present, only the other rate's
\* file present, none, present but invalid), it raises no error and returns
\* a sample with a buffer and a length above zero.
C21_LoadSingleSampleNeverFails ==
    \A p \in LoaderPairs, rate \in ThreadRates, writes \in SaveOutcomes :
        LET r == loadSingleSample(instrumentFiles[p], rate, p[1], p[2], writes)
        IN  /\ ~r.threw
            /\ r.sample.audioData # "null"
            /\ r.sample.lengthSamples > 0

\* C22: when neither file of the note and layer exists, loadSingleSample
\* generates the tone, writes the 44100 file and the 48000 file, and
\* returns the version of the target rate: SAMPLE_SECONDS seconds of frames
\* at that rate, the generated buffer for 44100 and the resampled one for
\* 48000.
C22_GeneratesBothAndReturnsTarget ==
    \A p \in LoaderPairs, rate \in ThreadRates :
        LET dir == instrumentFiles[p]
            r == loadSingleSample(dir, rate, p[1], p[2], [i \in 1..2 |-> TRUE])
        IN  (~dir.f44.exists /\ ~dir.f48.exists) =>
                /\ r.dir.f44.exists /\ r.dir.f48.exists
                /\ r.sample.audioData # "null"
                /\ r.sample.isGenerated
                /\ r.sample.lengthSamples = rate * SAMPLE_SECONDS

\* C23: when only the other rate's file exists, the file loadSingleSample
\* persists under the target rate's name is recorded at the target rate,
\* so resolving the same note and layer again at the same rate loads it
\* without resampling and returns a sample of the same length.
C23_PersistedFileIsAtTargetRate ==
    \A p \in LoaderPairs, rate \in ThreadRates :
        LET dir == instrumentFiles[p]
            target == generateFilename(rate)
            other == IF target = "f44" THEN "f48" ELSE "f44"
            first == loadSingleSample(dir, rate, p[1], p[2], [i \in 1..2 |-> TRUE])
            again == loadSingleSample(first.dir, rate, p[1], p[2], [i \in 1..2 |-> TRUE])
        IN  (~dir[target].exists /\ dir[other].exists /\ dir[other].valid) =>
                /\ first.dir[target].exists
                /\ first.dir[target].rate = rate
                /\ again.step = "target"
                /\ again.sample.lengthSamples = first.sample.lengthSamples

\* C24: a file that exists but is invalid is treated as not present: the
\* call raises no error and resolves as it would with the invalid files
\* missing (target invalid: the other rate's file, then synthesis; other
\* invalid: synthesis).
C24_InvalidFileIsSkipped ==
    \A p \in LoaderPairs, rate \in ThreadRates, writes \in SaveOutcomes :
        LET dir == instrumentFiles[p]
            without == [f \in DOMAIN dir |->
                          IF dir[f].exists /\ ~dir[f].valid THEN NoFile ELSE dir[f]]
            r == loadSingleSample(dir, rate, p[1], p[2], writes)
        IN  /\ ~r.threw
            /\ r.sample = loadSingleSample(without, rate, p[1], p[2], writes).sample

\* C25: a save that fails is not fatal: loadSingleSample returns the same
\* sample, and raises or not, as it does when every save writes, and
\* loadInstrument returns the same samples for every pair.
C25_WriteFailureIsNotFatal ==
    LET written == [i \in 1..2 |-> TRUE]
    IN  /\ \A p \in LoaderPairs, rate \in ThreadRates, writes \in SaveOutcomes :
               LET r == loadSingleSample(instrumentFiles[p], rate, p[1], p[2], writes)
                   ok == loadSingleSample(instrumentFiles[p], rate, p[1], p[2], written)
               IN  r.threw = ok.threw /\ r.sample = ok.sample
        /\ \A rate \in ThreadRates, writes \in [LoaderPairs -> SaveOutcomes] :
               loadInstrument(instrumentFiles, rate, writes).samples =
                   loadInstrument(instrumentFiles, rate,
                                  [p \in LoaderPairs |-> written]).samples

\* initialize has stored a layer loaded from the other rate's file although
\* the save of the target rate's file failed
C25_Witness ==
    /\ lastOp = "initialize"
    /\ \E p \in LoaderPairs :
           /\ isNoteAvailable(sampleSegments, p[1], p[2])
           /\ ~instrumentFiles[p][generateFilename(librarySampleRate)].exists

\* C26: after initialize has returned without an error, isNoteAvailable
\* holds of every note and layer the loader visits.
C26_InitializePopulatesEveryLayer ==
    lastOp = "initialize" =>
        \A p \in LoaderPairs : isNoteAvailable(sampleSegments, p[1], p[2])

\* ------------------------------------------------------------------------
\* The MIDI queues between two calls of processMidiEvents: the store holds
\* every layer; note-ons and note-offs of two keys are put, at most
\* MaxPending of them pending, or the note-on of one key is repeated until
\* its queue is full; processMidiEvents then applies what is queued, a
\* queue of more than MaxPending events being left as it is.
\* ------------------------------------------------------------------------
MidiPutNoteOn ==
    \E key \in MidiNotes, velocity \in {1, 100} :
        /\ Len(noteOnQueue) + Len(noteOffQueue) < MaxPending
        /\ LET m == putNoteOn(Midi, key, velocity)
           IN  /\ activeNotes' = m.activeNotes
               /\ noteOnQueue' = m.noteOnQueue
               /\ noteOffQueue' = m.noteOffQueue
        /\ lastOp' = "putNoteOn"
        /\ UNCHANGED <<poolVars, libVars, procVars, threadVars, instrumentFiles>>

MidiPutNoteOff ==
    \E key \in MidiNotes :
        /\ Len(noteOnQueue) + Len(noteOffQueue) < MaxPending
        /\ LET m == putNoteOff(Midi, key)
           IN  /\ activeNotes' = m.activeNotes
               /\ noteOnQueue' = m.noteOnQueue
               /\ noteOffQueue' = m.noteOffQueue
        /\ lastOp' = "putNoteOff"
        /\ UNCHANGED <<poolVars, libVars, procVars, threadVars, instrumentFiles>>

\* before any voice has sounded, one more note-on of the key that is the
\* only one queued so far; when the queue is full pushToQueue drops it
MidiRepeatNoteOn ==
    /\ \A i \in Voices : isInactive(voices[i])
    /\ noteOffQueue = <<>>
    /\ noteOnQueue # <<>>
    /\ \A i \in DOMAIN noteOnQueue : noteOnQueue[i] = LevelNote
    /\ activeNotes[LevelNote] = [isActive |-> TRUE, velocity |-> 100]
    /\ LET m == putNoteOn(Midi, LevelNote, 100)
       IN  /\ activeNotes' = m.activeNotes
           /\ noteOnQueue' = m.noteOnQueue
           /\ noteOffQueue' = m.noteOffQueue
    /\ lastOp' = IF Len(noteOnQueue') = Len(noteOnQueue) THEN "pushDropped"
                 ELSE "putNoteOn"
    /\ UNCHANGED <<poolVars, libVars, procVars, threadVars, instrumentFiles>>

MidiProcessEvents ==
    LET p == processMidiEvents(Pool, sampleSegments, Midi)
    IN  /\ Len(noteOnQueue) + Len(noteOffQueue) <= MaxPending
        /\ \A i \in Voices : p.voices[i].queue <= MaxRank
        /\ SetPool(p)
        /\ noteOnQueue' = drainQueue(noteOnQueue)
        /\ noteOffQueue' = drainQueue(noteOffQueue)
        /\ lastOp' = "processMidiEvents"
        /\ UNCHANGED <<activeNotes, libVars, procVars, threadVars, instrumentFiles>>

SpecMidi == VelocityInit /\ [][MidiPutNoteOn
          \/ MidiPutNoteOff
          \/ MidiRepeatNoteOn
          \/ MidiProcessEvents]_vars

\* C27: a note-off and a note-on of the same key that arrive before one
\* processMidiEvents are applied in the order they arrived: after
\* note-off(n) then note-on(n, v) the voice of n is Playing, not in Release.
C27_AppliedInArrivalOrder ==
    (noteOnQueue = <<>> /\ noteOffQueue = <<>>) =>
        \A n \in MidiNotes, v \in {1, 100} :
            LET m == putNoteOn(putNoteOff(Midi, n), n, v)
                p == processMidiEvents(Pool, sampleSegments, m)
            IN  \E i \in Voices :
                    isPlaying(p.voices[i]) /\ p.voices[i].midiNote = n

\* C28: every queued note-on is applied with the velocity it carried when
\* it was put: note-on(n, v) with v >= 1 leads to startVoice(n, v), also
\* when a note-off or another note-on of the same key is put before
\* processMidiEvents runs.
C28_NoteOnKeepsItsVelocity ==
    (noteOnQueue = <<>> /\ noteOffQueue = <<>>) =>
        \A n \in MidiNotes, v \in {1, 100}, w \in {1, 100} :
            LET started == startVoice(Pool, sampleSegments, n, v)
                thenOff == putNoteOff(putNoteOn(Midi, n, v), n)
                thenOn == putNoteOn(putNoteOn(Midi, n, v), n, w)
            IN  /\ processMidiEvents(Pool, sampleSegments, thenOff).voices =
                       stopVoice(started, n).voices
                /\ processMidiEvents(Pool, sampleSegments, thenOn).voices =
                       startVoice(started, sampleSegments, n, w).voices

\* C29: processMidiEvents drains what is pending: when it returns, the
\* note-on queue and the note-off queue are empty (the model keeps the
\* queues of MIDI channel 0; the loops treat the sixteen channels alike).
C29_QueuesDrained ==
    [][lastOp' = "processMidiEvents" =>
           noteOnQueue' = <<>> /\ noteOffQueue' = <<>>]_vars

\* processMidiEvents has applied a note-on and a note-off that were pending
C29_Witness ==
    /\ lastOp = "processMidiEvents"
    /\ noteOnQueue = <<>> /\ noteOffQueue = <<>>
    /\ \E i \in Voices : isInRelease(voices[i])
    /\ \E i \in Voices : isPlaying(voices[i])

\* C30: the queue accepts at least 512 pending events: a push onto a queue
\* of fewer than 512 events is appended, and a push that is dropped leaves
\* the queue as it was.
C30_QueueHoldsAtLeast512 ==
    \A n \in MidiNotes :
        LET pushed == pushToQueue(noteOnQueue, n)
        IN  /\ Len(noteOnQueue) < 512 => pushed = Append(noteOnQueue, n)
            /\ pushed # Append(noteOnQueue, n) => pushed = noteOnQueue

\* C31: after refresh the statistics report the steals of the elapsed
\* block: voicesStolenThisRefresh, releaseVoicesStolen and
\* playingVoicesStolen are the numbers of steals startVoice has made since
\* the previous refresh, and refresh changes no voice.
C31_RefreshReportsSteals ==
    [][lastOp' = "mix" =>
           /\ lastStats'.voicesStolenThisRefresh = voicesStolenSinceLastRefresh
           /\ lastStats'.releaseVoicesStolen = releaseVoicesStolen
           /\ lastStats'.playingVoicesStolen = playingVoicesStolen
           /\ refresh(Pool).voices = voices]_vars

\* ------------------------------------------------------------------------
\* processBlock with an exception raised inside it.  phase is the part of
\* the block that raises, as its first statement; std tells whether the
\* exception derives from std::exception, which is what the handlers
\* around the MIDI loop, processMidiEvents and generateAudio catch.  lastOp
\* names the handler that caught it: "midiError" goes on with the block,
\* "voicesError" and "audioError" clear the buffer and return,
\* "blockError" (the handlers around the whole block) clears the buffer and
\* stores processingEnabled_ = false.
\* ------------------------------------------------------------------------
ProcessBlockThrows ==
    \E midiMessages \in LifecycleMidi, numSamples \in BlockSizes,
       phase \in {"midi", "voices", "audio", "refresh"}, std \in BOOLEAN :
        LET inner == std /\ phase # "refresh"
            m1 == IF phase = "midi" THEN Midi
                  ELSE putMidiMessages(Midi, midiMessages)
            p1 == IF phase = "voices" /\ inner THEN Pool
                  ELSE processMidiEvents(Pool, sampleSegments, m1)
            p2 == generateAudio(p1, numSamples)
            p == IF ~inner
                 THEN CASE phase \in {"midi", "voices"} -> Pool
                        [] phase = "audio" -> p1
                        [] OTHER -> p2
                 ELSE CASE phase = "midi" -> refresh(p2)
                        [] phase = "voices" -> Pool
                        [] OTHER -> p1
            drained == IF inner THEN phase # "voices" ELSE phase \in {"audio", "refresh"}
        IN  /\ Running
            /\ processingEnabled /\ synthState = "Ready"
            /\ phase = "midi" => midiMessages # <<>>
            /\ Len(m1.noteOnQueue) + Len(m1.noteOffQueue) <= MaxPending
            /\ ~ReadsFreed(p1.voices, sampleSegments, numSamples)
            /\ \A i \in Voices : p.voices[i].queue <= MaxRank
            /\ SetPool(p)
            /\ activeNotes' = IF phase = "midi" THEN activeNotes ELSE m1.activeNotes
            /\ noteOnQueue' = IF drained THEN drainQueue(m1.noteOnQueue)
                              ELSE m1.noteOnQueue
            /\ noteOffQueue' = IF drained THEN drainQueue(m1.noteOffQueue)
                               ELSE m1.noteOffQueue
            /\ processingEnabled' = inner
            /\ lastOp' = IF ~inner THEN "blockError" ELSE phase \o "Error"
            /\ UNCHANGED <<synthState, sampleRate, samplesPerBlock, libVars,
                           threadVars, instrumentFiles>>

SpecFaults == Init /\ [][PrepareToPlay(44100, 512, DiskFull)
          \/ LifecycleProcessBlock
          \/ ProcessBlockThrows]_vars

\* C32: an exception raised inside processBlock (while the MIDI is read,
\* the events are applied or the audio is generated) does not reach the
\* host, the buffer of that block is cleared, and processing is disabled.
C32_ExceptionClearsAndDisables ==
    [][lastOp' \in {"midiError", "voicesError", "audioError", "blockError"} =>
           /\ lastOp' # "midiError"
           /\ ~processingEnabled']_vars

\* ------------------------------------------------------------------------
\* The sample store's accessMutex_ between the two threads.  clear(), called
\* by initialize, holds it for its whole body (controlThread = "inClear");
\* the accessors isNoteAvailable, getSampleData and getSampleLength, which
\* startVoice calls from processMidiEvents, take it for theirs (audioThread
\* = "inAccessor").  A thread that reaches its lock_guard while the other
\* holds the mutex waits there.
\* ------------------------------------------------------------------------
ControlClearLocked ==
    /\ Running
    /\ \/ /\ controlThread = "beforeInitialize"
          /\ audioThread # "inAccessor"
          /\ controlThread' = "inClear"
          /\ lastOp' = "clearLocks"
          /\ UNCHANGED <<sampleSegments, librarySampleRate>>
       \/ /\ controlThread = "inClear"
          /\ sampleSegments' = clear(sampleSegments)
          /\ librarySampleRate' = sampleRate
          /\ controlThread' = "initializing"
          /\ lastOp' = "initializeClear"
    /\ UNCHANGED <<libGen, poolVars, procVars, midiVars, audioThread,
                   instrumentFiles>>

AudioStoreAccess ==
    /\ Running
    /\ \/ /\ audioThread = "inBlock"
          /\ audioThread' = IF controlThread = "inClear" THEN "waitsForStore"
                            ELSE "inAccessor"
          /\ lastOp' = "accessorLocks"
       \/ /\ audioThread = "waitsForStore"
          /\ controlThread # "inClear"
          /\ audioThread' = "inAccessor"
          /\ lastOp' = "accessorLocks"
       \/ /\ audioThread = "inAccessor"
          /\ audioThread' = "inBlock"
          /\ lastOp' = "accessorUnlocks"
    /\ UNCHANGED <<poolVars, libVars, procVars, midiVars, controlThread,
                   instrumentFiles>>

SpecLocks ==
    Init /\ [][\/ AudioBegin
               \/ AudioStoreAccess
               \/ (controlThread # "inClear" /\ ThreadAudioEnd)
               \/ ThreadPrepareToPlay
               \/ ControlClearLocked
               \/ ThreadInitializeLoad]_vars

\* C33: processBlock never takes a lock that a path outside the audio
\* thread can hold: in no reachable state does the audio thread wait for
\* the sample store's mutex while initialization holds it in clear().
C33_AudioThreadNeverWaits ==
    ~(audioThread = "waitsForStore" /\ controlThread = "inClear")

\* C34: in every reachable pool state a voice holds a sample pointer exactly
\* when it is not Inactive: a voice that went Inactive holds none, an active
\* voice always holds one.
C34_PointerIffActive ==
    \A i \in Voices :
        (voices[i].sampleData # NullPtr) <=> (voices[i].voiceState # "Inactive")

\* ------------------------------------------------------------------------
\* SynthVoice::startRelease called on any voice of the pool, whatever its
\* state, between the pool's other operations.
\* ------------------------------------------------------------------------
VoiceStartRelease ==
    \E i \in Voices :
        /\ voices' = [voices EXCEPT ![i] = startRelease(voices[i])]
        /\ lastOp' = "startRelease"
        /\ UNCHANGED <<voicesStolenSinceLastRefresh, releaseVoicesStolen,
                       playingVoicesStolen, lastStats, libVars, procVars,
                       midiVars, threadVars, instrumentFiles>>

SpecStartRelease ==
    Init /\ [][PoolNoteOn \/ PoolNoteOff \/ PoolMixBlock
               \/ PoolLibraryInitialize \/ VoiceStartRelease]_vars

\* C35: startRelease acts on a Playing voice only: it sets the state to
\* Release and the release counter to 0 and leaves cursor, note, layer,
\* sample and rank as they were; on an Inactive or Release voice it changes
\* nothing, so a running release timer is not restarted.  No other voice
\* changes.
C35_StartReleaseFrame ==
    [][lastOp' = "startRelease" =>
          \E i \in Voices :
              /\ \A j \in Voices \ {i} : voices'[j] = voices[j]
              /\ voices[i].voiceState # "Playing" => voices'[i] = voices[i]
              /\ voices[i].voiceState = "Playing" =>
                     /\ voices'[i].voiceState = "Release"
                     /\ voices'[i].releaseCounter = 0
                     /\ voices'[i].position = voices[i].position
                     /\ voices'[i].midiNote = voices[i].midiNote
                     /\ voices'[i].velocity = voices[i].velocity
                     /\ voices'[i].currentDynamicLevel = voices[i].currentDynamicLevel
                     /\ voices'[i].sampleData = voices[i].sampleData
                     /\ voices'[i].currentSampleLength = voices[i].currentSampleLength
                     /\ voices'[i].queue = voices[i].queue]_vars

\* startRelease has just been called while every voice was in Release with
\* its timer running, and every timer kept its count
C35_Witness ==
    /\ lastOp = "startRelease"
    /\ \A i \in Voices :
           voices[i].voiceState = "Release" /\ voices[i].releaseCounter > 0

\* C36: a noteOn that re-triggers the voice already holding the note leaves
\* every rank as it was: the restarted voice keeps its queue value and so
\* does every other voice.
C36_RestartKeepsRank ==
    [][lastOp' = "restart" =>
          \A i \in Voices : voices'[i].queue = voices[i].queue]_vars

\* ------------------------------------------------------------------------
\* The pool played with velocities that count the noteOns: SynthVoice::start
\* stores the velocity it is given, on allocation and on re-trigger alike,
\* so voices[i].velocity is the time voice i was last started.
\* ------------------------------------------------------------------------
LruNoteOn ==
    \E n \in Notes :
        LET stamp == Max({voices[i].velocity : i \in Voices}) + 1
        IN  /\ stamp <= MaxStamp
            /\ NoteOn(n, stamp)

SpecLru ==
    Init /\ [][LruNoteOn \/ PoolNoteOff \/ PoolMixBlock
               \/ PoolLibraryInitialize]_vars

\* C37: stealing is least-recently-used: whenever noteOn steals a Playing
\* voice, no other Playing voice was last started (allocated or
\* re-triggered) before the victim.
C37_StealIsLeastRecentlyStarted ==
    [][lastOp' = "stealPlaying" =>
          \A i \in Voices :
              voices'[i] # voices[i] =>
                  \A j \in Voices :
                      isPlaying(voices[j]) =>
                          voices[j].velocity >= voices[i].velocity]_vars

\* ------------------------------------------------------------------------
\* The lifecycle one atomic store at a time.  controlThread is the position
\* of the control thread between the stores of prepareToPlay,
\* releaseResources and the destructor; the audio thread's error handler
\* runs between any two of them.
\* ------------------------------------------------------------------------
StepPrepareToPlay ==
    /\ Running
    /\ \/ \E rate \in LifecycleRates, block \in LifecycleBufferSizes :
            LET diff == rate - sampleRate
                sampleRateChanged == (IF diff < 0 THEN -diff ELSE diff) > 1
                hasError == synthState = "Error"
                isInitAfterRelease == synthState = "Uninitialized" /\ sampleRate > 0
                isTrueFirstInit == synthState = "Uninitialized" /\ sampleRate = 0
                needsFullReinit == isTrueFirstInit \/ hasError \/ sampleRateChanged
                valid == rate > 0 /\ rate <= 192000 /\ block > 0 /\ block <= 8192
            IN  /\ controlThread = "idle"
                /\ sampleRate' = IF valid THEN rate ELSE sampleRate
                /\ samplesPerBlock' = IF valid THEN block ELSE samplesPerBlock
                /\ controlThread' =
                       IF ~valid THEN "catchHandler"
                       ELSE IF needsFullReinit THEN "fullDisable"
                       ELSE IF isInitAfterRelease THEN "fastMark"
                       ELSE "enable"
                /\ UNCHANGED <<synthState, processingEnabled, libVars>>
       \/ /\ controlThread \in {"fullDisable", "fastDisable", "catchHandler",
                                "catchDisable"}
          /\ processingEnabled' = FALSE
          /\ controlThread' = CASE controlThread = "fullDisable" -> "fullMark"
                                [] controlThread = "fastDisable" -> "initializeSynthFast"
                                [] controlThread = "catchHandler" -> "catchMark"
                                [] OTHER -> "idle"
          /\ UNCHANGED <<synthState, sampleRate, samplesPerBlock, libVars>>
       \/ /\ controlThread \in {"fullMark", "fastMark"}
          /\ synthState' = "Initializing"
          /\ controlThread' = IF controlThread = "fullMark" THEN "initializeSynth"
                              ELSE "fastDisable"
          /\ UNCHANGED <<processingEnabled, sampleRate, samplesPerBlock, libVars>>
       \/ /\ controlThread = "initializeSynthFast"
          /\ hasValidSamples(sampleSegments)
          /\ synthState' = "Ready"
          /\ controlThread' = "enable"
          /\ UNCHANGED <<processingEnabled, sampleRate, samplesPerBlock, libVars>>
       \/ \E disk \in PrepareDisks :
            LET r == initialize(sampleSegments, sampleRate, disk, libGen + 1)
                failed == r.threw \/ ~hasValidSamples(r.segments)
            IN  /\ \/ controlThread = "initializeSynth"
                   \/ /\ controlThread = "initializeSynthFast"
                      /\ ~hasValidSamples(sampleSegments)
                /\ libGen < MaxGen
                /\ sampleSegments' = r.segments
                /\ librarySampleRate' = r.rate
                /\ libGen' = libGen + 1
                /\ synthState' = IF failed THEN synthState ELSE "Ready"
                /\ processingEnabled' = IF failed THEN FALSE ELSE processingEnabled
                /\ controlThread' = IF failed THEN "initializeError" ELSE "enable"
                /\ UNCHANGED <<sampleRate, samplesPerBlock>>
       \/ /\ controlThread \in {"initializeError", "catchMark"}
          /\ synthState' = "Error"
          /\ controlThread' = IF controlThread = "catchMark" THEN "catchDisable"
                              ELSE "enable"
          /\ UNCHANGED <<processingEnabled, sampleRate, samplesPerBlock, libVars>>
       \/ /\ controlThread = "enable"
          /\ processingEnabled' = IF synthState = "Ready" THEN TRUE
                                  ELSE processingEnabled
          /\ controlThread' = "idle"
          /\ UNCHANGED <<synthState, sampleRate, samplesPerBlock, libVars>>
    /\ lastOp' = "prepareToPlayStore"
    /\ UNCHANGED <<poolVars, midiVars, audioThread, instrumentFiles>>

\* a releaseResources that resets the state before it disables processing
StepReleaseResources_MarksFirst ==
    /\ Running
    /\ \/ /\ controlThread = "idle"
          /\ synthState' = "Uninitialized"
          /\ controlThread' = "releaseMark"
          /\ UNCHANGED processingEnabled
       \/ /\ controlThread = "releaseMark"
          /\ processingEnabled' = FALSE
          /\ controlThread' = "idle"
          /\ UNCHANGED synthState
    /\ lastOp' = "releaseResourcesStore"
    /\ UNCHANGED <<sampleRate, samplesPerBlock, libVars, poolVars, midiVars,
                   audioThread, instrumentFiles>>

StepReleaseResources ==
    /\ Running
    /\ \/ /\ controlThread = "idle"
          /\ processingEnabled' = FALSE
          /\ controlThread' = "releaseMark"
          /\ UNCHANGED synthState
       \/ /\ controlThread = "releaseMark"
          /\ synthState' = "Uninitialized"
          /\ controlThread' = "idle"
          /\ UNCHANGED processingEnabled
    /\ lastOp' = "releaseResourcesStore"
    /\ UNCHANGED <<sampleRate, samplesPerBlock, libVars, poolVars, midiVars,
                   audioThread, instrumentFiles>>

\* the destructor: its two stores, then SampleLibrary::clear
StepDestructor ==
    /\ Running
    /\ \/ /\ controlThread = "idle"
          /\ processingEnabled' = FALSE
          /\ controlThread' = "destructorMark"
          /\ UNCHANGED <<synthState, sampleSegments>>
       \/ /\ controlThread = "destructorMark"
          /\ synthState' = "Uninitialized"
          /\ controlThread' = "destructorClear"
          /\ UNCHANGED <<processingEnabled, sampleSegments>>
       \/ /\ controlThread = "destructorClear"
          /\ sampleSegments' = clear(sampleSegments)
          /\ controlThread' = "destroyed"
          /\ UNCHANGED <<synthState, processingEnabled>>
    /\ lastOp' = "destructorStore"
    /\ UNCHANGED <<sampleRate, samplesPerBlock, librarySampleRate, libGen,
                   poolVars, midiVars, audioThread, instrumentFiles>>

\* the catch handlers that close processBlock, reached from anywhere in a
\* block that passed the entry test
StepBlockError ==
    /\ Running
    /\ audioThread = "inBlock"
    /\ processingEnabled' = FALSE
    /\ audioThread' = "idle"
    /\ lastOp' = "blockError"
    /\ UNCHANGED <<synthState, sampleRate, samplesPerBlock, libVars, poolVars,
                   midiVars, controlThread, instrumentFiles>>

SpecStores ==
    Init /\ [][\/ StepPrepareToPlay
               \/ StepReleaseResources
               \/ StepDestructor
               \/ (controlThread # "destroyed" /\ AudioBegin)
               \/ StepBlockError]_vars

\* C38: in every reachable state of the processor, the states between the
\* single stores of prepareToPlay, releaseResources, the error handler and
\* the destructor included, processing is enabled only if the lifecycle
\* state is Ready.
C38_EnabledOnlyWhenReady ==
    processingEnabled => synthState = "Ready"

\* the control thread stands between the two stores of a sequence that
\* started from a Ready, enabled processor
C38_Witness ==
    /\ controlThread \in {"fullMark", "releaseMark", "catchMark", "destructorMark"}
    /\ synthState = "Ready"
    /\ ~processingEnabled

\* C39: whenever a prepareToPlay call returns, the state is Ready or Error,
\* never Uninitialized or Initializing, and processing is enabled exactly
\* when the state is Ready, whatever the state before the call and whatever
\* the arguments.
C39_PrepareEndsReadyOrError ==
    [][lastOp' \in {"prepareToPlay", "prepareToPlayFast"} =>
          /\ synthState' \in {"Ready", "Error"}
          /\ processingEnabled' <=> synthState' = "Ready"]_vars

\* prepareToPlay has returned Error for arguments out of range on a
\* processor whose store is loaded
C39_Witness ==
    /\ lastOp = "prepareToPlay"
    /\ synthState = "Error"
    /\ ~processingEnabled
    /\ hasValidSamples(sampleSegments)

\* ------------------------------------------------------------------------
\* A host whose sample rate moves by one hertz at a time between calls of
\* prepareToPlay, with releaseResources and blocks in between.
\* ------------------------------------------------------------------------
SpecRates ==
    Init /\ [][\/ \E rate \in {44100, 44101, 44102}, disk \in PrepareDisks :
                      PrepareToPlay(rate, 512, disk)
               \/ ReleaseResources
               \/ LifecycleProcessBlock]_vars

\* C40: whenever the state is Ready, the store's samples were loaded for the
\* processor's current sample rate: the rate of SampleLibrary and sampleRate_
\* differ by at most 1 Hz.
C40_ReadyAtCurrentRate ==
    synthState = "Ready" =>
        /\ librarySampleRate - sampleRate <= 1
        /\ sampleRate - librarySampleRate <= 1

====
